---------------------------- MODULE Spec2Model ----------------------------
(***************************************************************************)
(* A model of the open-gt server: the voice orchestrator (createEngineer), *)
(* the config events that create and drop it, the callout engine, the UDP  *)
(* decoder with the auto-discovery lock, and the telemetry analyzer.       *)
(* Each component has its own specification (SpecEngineer, SpecCallouts,   *)
(* SpecUdp, SpecAnalyzer); the variables of the other components keep      *)
(* their initial values under it.                                          *)
(***************************************************************************)
EXTENDS Integers, Sequences, FiniteSets, TLC

(***************************************************************************)
(* Bounds of the model.                                                    *)
(***************************************************************************)
MaxSockets == 2
MaxEngineers == 2
MaxSessions == 2
MaxPackets == 7
MaxErrors == 2
MaxTicks == 5

Null == 0
NoKey == ""
Keys == {"k1"}
EnvKey == "kenv"

SocketIds == 1..MaxSockets
EngineerIds == 1..MaxEngineers

VARIABLES
  \* ---- config.ts / index.ts (server wiring) ----
  current,          \* config.ts `current`: [geminiApiKey, engineerEnabled]
  engineer,         \* index.ts `engineer`: Null or the id of the current instance
  created,          \* number of createEngineer() calls so far (instances 1..created)
  validating,       \* keys whose validateGeminiKey() call is pending (config:setApiKey)
  file,             \* config.json: << >> (no file) or << [geminiApiKeyEncrypted,
                    \* engineerEnabled] >>
  envKey,           \* process.env.GEMINI_API_KEY (NoKey: not set)
  testing,          \* the `cfg` of the config:testKey handlers whose
                    \* validateGeminiKey() call is pending
  \* ---- socket.io ----
  sockets,          \* io.sockets.sockets: ids of the connected sockets
  everConnected,    \* number of sockets that have connected (ids are never reused)
  startHandlers,    \* socket -> instances whose io.on("connection") gave it handlers
  audioIn,          \* socket -> sessions with an "engineer:audio:in" listener on it
  audioEnd,         \* socket -> sessions with an "engineer:audio:end" listener on it
  onDisconnect,     \* socket -> instances with a once("disconnect") handler on it
  \* ---- createEngineer instances ----
  activeSession,    \* instance -> Null or the id of its active session
  sessions          \* every startSession execution that got past getSocket

cfgVars == <<file, envKey, testing>>

engVars == <<current, engineer, created, validating, sockets, everConnected,
             startHandlers, audioIn, audioEnd, onDisconnect, activeSession, sessions,
             cfgVars>>

\* ---- callout engine (createCalloutEngine) and the wall clock ----
VARIABLES
  now,              \* Date.now(), in ms
  verbosity,        \* callout engine `verbosity`
  cooldowns,        \* callout engine `cooldowns`: rule type -> last fired (0: absent)
  returned,         \* the callouts the engine call of this step returned
  evaluated,        \* the engine call of this step: << [set, snapshot] >>, or << >>
  requested,        \* the level of the latest engineer:verbosity event (2 before any)
  seen              \* an observer's record: rule type -> timestamps [prev, last] of
                    \* the last two callouts of that type it saw returned (0: none)

coVars == <<now, verbosity, cooldowns, returned, evaluated, requested, seen>>

\* ---- UDP side of the server: discovery, heartbeat, throttle ----
VARIABLES
  broadcastAddresses, \* what getBroadcastAddresses() returned at startup
  explicitIP,         \* process.env.PS5_IP (NoAddr: not set)
  ps5Targets,         \* `ps5Targets`
  discoveredPS5,      \* `discoveredPS5` (NoAddr: null)
  lastBroadcast,      \* telemetry.ts `lastBroadcast`
  handled,            \* the datagram this step's "message" callback got, with what came
                      \* of it: << [datagram, frame, reached] >>, or << >>
  hbSent              \* the targets this step's heartbeat send() went to

udpVars == <<broadcastAddresses, explicitIP, ps5Targets, discoveredPS5,
             lastBroadcast, handled, hbSent>>

\* ---- telemetry analyzer (createTelemetryAnalyzer) ----
VARIABLES
  analyzer,           \* the analyzer's closure variables, as one record
  packets,            \* number of on-track frames the analyzer was fed
  lapsSeen            \* an observer's record: the positive lastLapTime values of the
                      \* frames that changed the lap count, since the last new race

\* ---- session logger (createTelemetryLogger) ----
VARIABLES
  logger,             \* the logger's closure variables, as one record
  logSeen             \* << >>, or what an observer of the logger's files counts:
                      \* << [opened, ended, linesWritten, finalized] >>, the streams
                      \* opened and ended, the lines written to the latest stream,
                      \* and the packet count of the metadata file written last
                      \* with the lines of its stream

anVars == <<analyzer, packets, lapsSeen, logger, logSeen>>

\* ---- what goes out, and the 1 Hz timer of index.ts ----
VARIABLES
  sent,               \* what this step sent, in order: model audio, model text and
                      \* engineer:error to a socket, callouts and context to a model
                      \* connection or to all clients, driver audio to a model
                      \* connection: << [to, event, session, payload] >>, the
                      \* payload << >>, << callout >> or << sending socket >>
  contextUpdateCounter \* index.ts `contextUpdateCounter`

wireVars == <<sent, contextUpdateCounter>>

nonEngVars == <<coVars, udpVars, anVars, contextUpdateCounter>>
nonCoVars == <<engVars, udpVars, anVars, contextUpdateCounter>>
nonUdpVars == <<engVars, verbosity, requested, contextUpdateCounter>>

vars == <<engVars, coVars, udpVars, anVars, wireVars>>

(***************************************************************************)
(* The orchestrator state an operation reads and writes, as one record.    *)
(***************************************************************************)
EngState ==
  [sockets |-> sockets, audioIn |-> audioIn, audioEnd |-> audioEnd,
   onDisconnect |-> onDisconnect, activeSession |-> activeSession,
   sessions |-> sessions]

SetEngState(E) ==
  /\ sockets' = E.sockets
  /\ audioIn' = E.audioIn
  /\ audioEnd' = E.audioEnd
  /\ onDisconnect' = E.onDisconnect
  /\ activeSession' = E.activeSession
  /\ sessions' = E.sessions

(***************************************************************************)
(* gemini.disconnect(): closes the model session if there is one.          *)
(***************************************************************************)
\* A model connection is "connecting", "open", "failed" (connect() caught an
\* error: no session), "dropped" (onclose ran: session kept, isConnected
\* false) or "closed" (disconnect() ran: session null).
GeminiDisconnect(g) == IF g \in {"open", "dropped"} THEN "closed" ELSE g

\* a socket.emit to every connected socket instead of the one that started k
EmitToOwner_Broadcast(E, k, event) ==
  LET RECURSIVE ToAll(_)
      ToAll(S) ==
        IF S = {} THEN <<>>
        ELSE LET s == CHOOSE x \in S : \A y \in S : x <= y
             IN << [to |-> s, event |-> event, session |-> k, payload |-> <<>>] >>
                \o ToAll(S \ {s})
  IN ToAll(E.sockets)

\* socket.emit(event, ...) in a callback of session k: `socket` is the one
\* startSession looked up; a disconnected socket receives nothing
EmitToOwner(E, k, event) ==
  IF E.sessions[k].socketId \in E.sockets
    THEN << [to |-> E.sessions[k].socketId, event |-> event, session |-> k,
             payload |-> <<>>] >>
    ELSE <<>>

\* io.emit("engineer:text", ...) for one callout
EmitText(callout) ==
  [to |-> "clients", event |-> "engineer:text", session |-> Null, payload |-> <<callout>>]

\* gemini.sendCallout(callout) of session k
sendCallout(E, k, callout) ==
  IF E.sessions[k].gemini # "open" THEN <<>>
  ELSE << [to |-> "model", event |-> "callout", session |-> k, payload |-> <<callout>>] >>

\* deliverCallouts sending the last callout first
RECURSIVE deliverCallouts_Reversed(_, _, _)
deliverCallouts_Reversed(E, i, callouts) ==
  IF E.activeSession[i] = Null \/ callouts = <<>> THEN <<>>
  ELSE deliverCallouts_Reversed(E, i, Tail(callouts))
         \o sendCallout(E, E.activeSession[i], Head(callouts))

\* deliverCallouts(callouts) of instance i
RECURSIVE deliverCallouts(_, _, _)
deliverCallouts(E, i, callouts) ==
  IF E.activeSession[i] = Null \/ callouts = <<>> THEN <<>>
  ELSE sendCallout(E, E.activeSession[i], Head(callouts))
         \o deliverCallouts(E, i, Tail(callouts))

\* the routing of index.ts: engineer?.hasActiveSession ? deliverCallouts : io.emit
RouteCallouts(E, eng, callouts) ==
  IF eng # Null /\ E.activeSession[eng] # Null
    THEN deliverCallouts(E, eng, callouts)
    ELSE [n \in DOMAIN callouts |-> EmitText(callouts[n])]


(***************************************************************************)
(* Mutant of stopSession: drops the slot without closing the model session *)
(* or notifying the owner.                                                 *)
(***************************************************************************)
stopSession_SlotOnly(E, i, socketId) ==
  LET k == E.activeSession[i] IN
  IF k = Null \/ E.sessions[k].socketId # socketId THEN E
  ELSE [E EXCEPT !.activeSession[i] = Null]

\* stopSession without the check that the caller owns the active session
stopSession_AnyCaller(E, i, socketId) ==
  LET k == E.activeSession[i] IN
  IF k = Null THEN E
  ELSE
    LET present == socketId \in E.sockets IN
    [E EXCEPT
       !.sessions[k].contextInterval = FALSE,
       !.sessions[k].gemini = GeminiDisconnect(@),
       !.audioIn[socketId] = IF present THEN {} ELSE @,
       !.activeSession[i] = Null]

(***************************************************************************)
(* stopSession(socketId) of instance i.                                    *)
(***************************************************************************)
stopSession(E, i, socketId) ==
  LET k == E.activeSession[i] IN
  IF k = Null \/ E.sessions[k].socketId # socketId THEN E
  ELSE
    LET present == socketId \in E.sockets IN
    [E EXCEPT
       !.sessions[k].contextInterval = FALSE,
       !.sessions[k].gemini = GeminiDisconnect(@),
       !.audioIn[socketId] = IF present THEN {} ELSE @,
       !.sessions[k].statusFalse = IF present THEN TRUE ELSE @,
       !.activeSession[i] = Null]

(***************************************************************************)
(* startSession up to `await gemini.connect()`, for instance i.            *)
(***************************************************************************)
startSessionBegin(E, i, socketId) ==
  LET E1 == IF E.activeSession[i] # Null
            THEN stopSession(E, i, E.sessions[E.activeSession[i]].socketId)
            ELSE E
      pending == {k \in DOMAIN E1.sessions :
                    /\ E1.sessions[k].inst = i
                    /\ E1.sessions[k].gemini = "connecting"}
  IN
  IF socketId \notin E1.sockets THEN E1
  ELSE [E1 EXCEPT !.sessions = Append(@,
          [inst |-> i, socketId |-> socketId, gemini |-> "connecting",
           contextInterval |-> FALSE, statusTrue |-> FALSE,
           statusFalse |-> FALSE, errors |-> 0, overlapped |-> pending,
           replaced |-> E.activeSession[i]])]

(***************************************************************************)
(* startSession after `await gemini.connect()`: ok says whether the model  *)
(* connection opened (connect() catches a failure and reports it through   *)
(* onError, then resolves all the same).                                   *)
(***************************************************************************)
startSessionResume(E, k, ok) ==
  LET s == E.sessions[k]
      present == s.socketId \in E.sockets
  IN
  [E EXCEPT
     !.sessions[k].gemini = IF ok THEN "open" ELSE "failed",
     !.sessions[k].errors = IF ~ok /\ present THEN @ + 1 ELSE @,
     !.sessions[k].contextInterval = TRUE,
     !.activeSession[s.inst] = k,
     !.sessions[k].statusTrue = present,
     !.audioIn[s.socketId] = @ \cup {k},
     !.audioEnd[s.socketId] = @ \cup {k},
     !.onDisconnect[s.socketId] = @ \cup {s.inst}]

(***************************************************************************)
(* One event runs the handler of every instance registered on the socket,  *)
(* in registration order.                                                  *)
(***************************************************************************)
RECURSIVE ForEachInstance(_, _, _, _)
ForEachInstance(op, E, insts, socketId) ==
  IF insts = {} THEN E
  ELSE LET i == CHOOSE x \in insts : \A y \in insts : x <= y
           E1 == IF op = "start" THEN startSessionBegin(E, i, socketId)
                 ELSE stopSession(E, i, socketId)
       IN ForEachInstance(op, E1, insts \ {i}, socketId)

(***************************************************************************)
(* config.ts and the key store: the file holds the key encrypted with a    *)
(* key derived from the host name; an empty key is stored as empty.        *)
(***************************************************************************)
Hostname == "host-a"
NoFile == <<>>

encryptValue(plaintext) == IF plaintext = NoKey THEN <<>> ELSE <<Hostname, plaintext>>
decryptValue(stored) ==
  IF stored = <<>> THEN NoKey
  ELSE IF stored[1] = Hostname THEN stored[2] ELSE NoKey

load(f) ==
  IF f = NoFile THEN [geminiApiKey |-> NoKey, engineerEnabled |-> FALSE]
  ELSE [geminiApiKey |-> decryptValue(f[1].geminiApiKeyEncrypted),
        engineerEnabled |-> f[1].engineerEnabled]

\* save writing the same record without the key
save_WithoutKey(config) ==
  << [geminiApiKeyEncrypted |-> <<>>, engineerEnabled |-> config.engineerEnabled] >>

save(config) ==
  << [geminiApiKeyEncrypted |-> encryptValue(config.geminiApiKey),
      engineerEnabled |-> config.engineerEnabled] >>

initConfig(f, env) ==
  IF env # NoKey THEN [geminiApiKey |-> env, engineerEnabled |-> TRUE]
  ELSE load(f)

\* the config.json files a start can find
ConfigFiles ==
  {NoFile} \cup {save(c) : c \in [geminiApiKey : Keys \cup {NoKey}, engineerEnabled : BOOLEAN]}

\* the payload of a config:state event (the key hint, a mask of the same key,
\* is left out)
ConfigState(cfg, valid) ==
  [to |-> "clients", event |-> "config:state", session |-> Null,
   payload |-> << [hasApiKey |-> cfg.geminiApiKey # NoKey,
                   engineerEnabled |-> cfg.engineerEnabled,
                   apiKeyValid |-> valid] >>]

(***************************************************************************)
(* initEngineer().                                                         *)
(***************************************************************************)
WouldCreate(cfg) == cfg.geminiApiKey # NoKey /\ cfg.engineerEnabled

initEngineer(cfg) ==
  IF WouldCreate(cfg)
  THEN /\ engineer' = created + 1
       /\ created' = created + 1
  ELSE /\ engineer' = Null
       /\ created' = created

(***************************************************************************)
(* Actions of the orchestrator and of the config events.                   *)
(***************************************************************************)
SocketConnect(s) ==
  /\ s = everConnected + 1
  /\ sockets' = sockets \cup {s}
  /\ everConnected' = s
  /\ startHandlers' = [startHandlers EXCEPT ![s] = 1..created]
  /\ sent' = <<>>
  /\ UNCHANGED <<nonEngVars, cfgVars, current, engineer, created, validating, audioIn, audioEnd,
                 onDisconnect, activeSession, sessions>>

SocketDisconnect(s) ==
  /\ s \in sockets
  /\ LET E0 == [EngState EXCEPT !.sockets = @ \ {s}, !.onDisconnect[s] = {}]
     IN SetEngState(ForEachInstance("stop", E0, onDisconnect[s], s))
  /\ sent' = <<>>
  /\ UNCHANGED <<nonEngVars, cfgVars, current, engineer, created, validating, everConnected, startHandlers>>

\* a startSession that hands its verbosity to the callout engine
startSessionVerbosity_Applied(v, level) == level

\* the callout engine's verbosity after startSession(socketId, personality,
\* _verbosity): the parameter is never read
startSessionVerbosity(v, level) == v

\* engineer:start with params.verbosity = level
EngineerStartWith(s, level) ==
  /\ s \in sockets
  /\ startHandlers[s] # {}
  /\ Len(sessions) + Cardinality(startHandlers[s]) <= MaxSessions
  /\ SetEngState(ForEachInstance("start", EngState, startHandlers[s], s))
  /\ verbosity' = startSessionVerbosity(verbosity, level)
  /\ sent' = <<>>
  /\ UNCHANGED <<now, cooldowns, returned, evaluated, requested, seen, udpVars, anVars,
                 contextUpdateCounter, cfgVars, current, engineer, created, validating,
                 everConnected, startHandlers>>

\* engineer:start without a verbosity: params.verbosity ?? 2
EngineerStart(s) == EngineerStartWith(s, 2)

ConnectResolve(k, ok) ==
  /\ k \in DOMAIN sessions
  /\ sessions[k].gemini = "connecting"
  /\ SetEngState(startSessionResume(EngState, k, ok))
  /\ sent' = IF ok THEN <<>> ELSE EmitToOwner(EngState, k, "engineer:error")
  /\ UNCHANGED <<nonEngVars, cfgVars, current, engineer, created, validating, everConnected, startHandlers>>

\* the model connection's onerror callback
GeminiError(k) ==
  /\ k \in DOMAIN sessions
  /\ sessions[k].gemini = "open"
  /\ sessions[k].errors < MaxErrors
  /\ sessions' = [sessions EXCEPT ![k].errors =
                    IF sessions[k].socketId \in sockets THEN @ + 1 ELSE @]
  /\ sent' = EmitToOwner(EngState, k, "engineer:error")
  /\ UNCHANGED <<nonEngVars, cfgVars, current, engineer, created, validating, sockets, everConnected,
                 startHandlers, audioIn, audioEnd, onDisconnect, activeSession>>

\* the model connection's onclose callback
GeminiClose(k) ==
  /\ k \in DOMAIN sessions
  /\ sessions[k].gemini = "open"
  /\ sessions' = [sessions EXCEPT ![k].gemini = "dropped"]
  /\ sent' = <<>>
  /\ UNCHANGED <<nonEngVars, cfgVars, current, engineer, created, validating, sockets, everConnected,
                 startHandlers, audioIn, audioEnd, onDisconnect, activeSession>>

\* the model connection's onmessage callback, for a message with audio and text
GeminiMessage(k) ==
  /\ k \in DOMAIN sessions
  /\ sessions[k].gemini = "open"
  /\ sent' = EmitToOwner(EngState, k, "engineer:audio:out")
               \o EmitToOwner(EngState, k, "engineer:text")
  /\ UNCHANGED <<nonEngVars, engVars>>

\* gemini.sendAudio of the sessions in ks, in listener order
RECURSIVE SendAudioTo(_, _, _)
SendAudioTo(E, ks, from) ==
  IF ks = {} THEN <<>>
  ELSE LET k == CHOOSE x \in ks : \A y \in ks : x <= y IN
       (IF E.sessions[k].gemini = "open"
          THEN << [to |-> "model", event |-> "audio:in", session |-> k,
                   payload |-> <<from>>] >>
          ELSE <<>>)
       \o SendAudioTo(E, ks \ {k}, from)

\* socket s sends engineer:audio:in: its listeners run
AudioIn(s) ==
  /\ s \in sockets
  /\ sent' = SendAudioTo(EngState, audioIn[s], s)
  /\ UNCHANGED <<nonEngVars, engVars>>

\* gemini.endAudioStream of the sessions in ks, in listener order
RECURSIVE EndAudioStreamOf(_, _, _)
EndAudioStreamOf(E, ks, from) ==
  IF ks = {} THEN <<>>
  ELSE LET k == CHOOSE x \in ks : \A y \in ks : x <= y IN
       (IF E.sessions[k].gemini = "open"
          THEN << [to |-> "model", event |-> "audio:end", session |-> k,
                   payload |-> <<from>>] >>
          ELSE <<>>)
       \o EndAudioStreamOf(E, ks \ {k}, from)

\* socket s sends engineer:audio:end: its listeners run
AudioEnd(s) ==
  /\ s \in sockets
  /\ sent' = EndAudioStreamOf(EngState, audioEnd[s], s)
  /\ UNCHANGED <<nonEngVars, engVars>>

EngineerStop(s) ==
  /\ s \in sockets
  /\ startHandlers[s] # {}
  /\ SetEngState(ForEachInstance("stop", EngState, startHandlers[s], s))
  /\ sent' = <<>>
  /\ UNCHANGED <<nonEngVars, cfgVars, current, engineer, created, validating, everConnected, startHandlers>>

ConfigSetEngineerEnabled(enabled) ==
  LET cfg == [current EXCEPT !.engineerEnabled = enabled] IN
  /\ WouldCreate(cfg) => created < MaxEngineers
  /\ current' = cfg
  /\ file' = save(cfg)
  /\ initEngineer(cfg)
  /\ sent' = << ConfigState(cfg, "null") >>
  /\ UNCHANGED <<nonEngVars, envKey, testing, validating, sockets, everConnected, startHandlers, audioIn,
                 audioEnd, onDisconnect, activeSession, sessions>>

\* config:deleteKey leaving the orchestrator in place
ConfigDeleteKey_KeepEngineer ==
  LET cfg == [current EXCEPT !.geminiApiKey = NoKey, !.engineerEnabled = FALSE] IN
  /\ current' = cfg
  /\ file' = save(cfg)
  /\ engineer' = engineer
  /\ sent' = << ConfigState(cfg, "null") >>
  /\ UNCHANGED <<nonEngVars, envKey, testing, created, validating, sockets, everConnected,
                 startHandlers, audioIn, audioEnd, onDisconnect, activeSession, sessions>>

ConfigDeleteKey ==
  LET cfg == [current EXCEPT !.geminiApiKey = NoKey, !.engineerEnabled = FALSE] IN
  /\ current' = cfg
  /\ file' = save(cfg)
  /\ engineer' = Null
  /\ sent' = << ConfigState(cfg, "null") >>
  /\ UNCHANGED <<nonEngVars, envKey, testing, created, validating, sockets, everConnected, startHandlers,
                 audioIn, audioEnd, onDisconnect, activeSession, sessions>>

ConfigSetApiKey(key) ==
  /\ key \notin validating
  /\ validating' = validating \cup {key}
  /\ sent' = <<>>
  /\ UNCHANGED <<nonEngVars, cfgVars, current, engineer, created, sockets, everConnected, startHandlers,
                 audioIn, audioEnd, onDisconnect, activeSession, sessions>>

\* the handler storing the key whatever validateGeminiKey returned
ValidateResolve_Unchecked(key, valid) ==
  /\ key \in validating
  /\ validating' = validating \ {key}
  /\ LET cfg == [current EXCEPT !.geminiApiKey = key] IN
     /\ WouldCreate(cfg) => created < MaxEngineers
     /\ current' = cfg
     /\ file' = save(cfg)
     /\ initEngineer(cfg)
  /\ sent' = << ConfigState(current', IF valid THEN "true" ELSE "false"),
               [to |-> "caller", event |-> "ack", session |-> Null,
                payload |-> << [valid |-> valid, error |-> ~valid] >>] >>
  /\ UNCHANGED <<nonEngVars, envKey, testing, sockets, everConnected, startHandlers, audioIn, audioEnd,
                 onDisconnect, activeSession, sessions>>

\* config:setApiKey after `await validateGeminiKey(params.apiKey)`
ValidateResolve(key, valid) ==
  /\ key \in validating
  /\ validating' = validating \ {key}
  /\ IF valid
     THEN LET cfg == [current EXCEPT !.geminiApiKey = key] IN
          /\ WouldCreate(cfg) => created < MaxEngineers
          /\ current' = cfg
          /\ file' = save(cfg)
          /\ initEngineer(cfg)
     ELSE UNCHANGED <<current, file, engineer, created>>
  /\ sent' = << ConfigState(current', IF valid THEN "true" ELSE "false"),
               [to |-> "caller", event |-> "ack", session |-> Null,
                payload |-> << [valid |-> valid, error |-> ~valid] >>] >>
  /\ UNCHANGED <<nonEngVars, envKey, testing, sockets, everConnected, startHandlers, audioIn, audioEnd,
                 onDisconnect, activeSession, sessions>>

\* config:testKey up to `await validateGeminiKey(cfg.geminiApiKey)`
ConfigTestKey ==
  /\ current \notin testing
  /\ testing' = testing \cup {current}
  /\ sent' = <<>>
  /\ UNCHANGED <<nonEngVars, file, envKey, current, engineer, created, validating, sockets,
                 everConnected, startHandlers, audioIn, audioEnd, onDisconnect,
                 activeSession, sessions>>

\* config:testKey after the await: the state it emits is the `cfg` it read
\* before; validateGeminiKey rejects an empty key
TestResolve(cfg, valid) ==
  /\ cfg \in testing
  /\ cfg.geminiApiKey = NoKey => ~valid
  /\ testing' = testing \ {cfg}
  /\ sent' = << ConfigState(cfg, IF valid THEN "true" ELSE "false"),
               [to |-> "caller", event |-> "ack", session |-> Null,
                payload |-> << [valid |-> valid, error |-> ~valid] >>] >>
  /\ UNCHANGED <<nonEngVars, file, envKey, current, engineer, created, validating, sockets,
                 everConnected, startHandlers, audioIn, audioEnd, onDisconnect,
                 activeSession, sessions>>

EngInit ==
  /\ envKey \in {NoKey, EnvKey}
  /\ file \in ConfigFiles
  /\ current = initConfig(file, envKey)
  /\ engineer = IF WouldCreate(current) THEN 1 ELSE Null
  /\ created = IF WouldCreate(current) THEN 1 ELSE 0
  /\ validating = {}
  /\ testing = {}
  /\ sockets = {}
  /\ everConnected = 0
  /\ startHandlers = [s \in SocketIds |-> {}]
  /\ audioIn = [s \in SocketIds |-> {}]
  /\ audioEnd = [s \in SocketIds |-> {}]
  /\ onDisconnect = [s \in SocketIds |-> {}]
  /\ activeSession = [i \in EngineerIds |-> Null]
  /\ sessions = <<>>

NextEngineer ==
  \/ \E s \in SocketIds : SocketConnect(s)
  \/ \E s \in SocketIds : SocketDisconnect(s)
  \/ \E s \in SocketIds : EngineerStart(s)
  \/ \E s \in SocketIds : EngineerStop(s)
  \/ \E k \in 1..MaxSessions, ok \in BOOLEAN : ConnectResolve(k, ok)
  \/ \E k \in 1..MaxSessions : GeminiError(k)
  \/ \E k \in 1..MaxSessions : GeminiClose(k)
  \/ \E k \in 1..MaxSessions : GeminiMessage(k)
  \/ \E s \in SocketIds : AudioIn(s)
  \/ \E s \in SocketIds : AudioEnd(s)

\* the keys clients submit in SpecConfig
ConfigKeys == Keys \cup {"k2"}

\* the configs a handler can read
Configs == [geminiApiKey : ConfigKeys \cup {NoKey, EnvKey}, engineerEnabled : BOOLEAN]

\* the config events alone
NextConfig ==
  \/ \E b \in BOOLEAN : ConfigSetEngineerEnabled(b)
  \/ ConfigDeleteKey
  \/ \E key \in ConfigKeys : ConfigSetApiKey(key)
  \/ \E key \in ConfigKeys, valid \in BOOLEAN : ValidateResolve(key, valid)
  \/ ConfigTestKey
  \/ \E cfg \in Configs, valid \in BOOLEAN : TestResolve(cfg, valid)

NextServer ==
  \/ NextEngineer
  \/ \E b \in BOOLEAN : ConfigSetEngineerEnabled(b)
  \/ ConfigDeleteKey
  \/ \E key \in Keys : ConfigSetApiKey(key)
  \/ \E key \in Keys, valid \in BOOLEAN : ValidateResolve(key, valid)

(***************************************************************************)
(* Numbers.  The code computes in IEEE doubles; the model keeps a quotient  *)
(* as the pair of its integer numerator and denominator, and +Infinity as   *)
(* a pair with denominator 0.                                               *)
(***************************************************************************)
Quot(n, d) == [num |-> n, den |-> d]
PosInfinity == Quot(1, 0)
IsFinite(q) == q.den # 0
\* q < k and q > a/b, for a quotient q with q.den >= 0
QuotLess(q, k) == q.den > 0 /\ q.num < k * q.den
QuotGreater(q, a, b) == IF q.den = 0 THEN q.num > 0 ELSE q.num * b > a * q.den
QuotIsZero(q) == q.den # 0 /\ q.num = 0
Abs(x) == IF x < 0 THEN -x ELSE x

Corners == {"fl", "fr", "rl", "rr"}

(***************************************************************************)
(* The callout rules: periodicRules and lapRules, in table order.          *)
(***************************************************************************)
periodicRules ==
  << [type |-> "fuel_low",       priority |-> "critical", minVerbosity |-> 1, cooldownMs |-> 60000],
     [type |-> "tyre_temp_high", priority |-> "critical", minVerbosity |-> 1, cooldownMs |-> 30000],
     [type |-> "tyre_trend",     priority |-> "normal",   minVerbosity |-> 2, cooldownMs |-> 60000] >>

lapRules ==
  << [type |-> "lap_delta",        priority |-> "normal", minVerbosity |-> 2, cooldownMs |-> 0],
     [type |-> "lap_summary",      priority |-> "info",   minVerbosity |-> 3, cooldownMs |-> 0],
     [type |-> "fuel_estimate",    priority |-> "normal", minVerbosity |-> 2, cooldownMs |-> 0],
     [type |-> "rev_limiter",      priority |-> "normal", minVerbosity |-> 2, cooldownMs |-> 0],
     [type |-> "tcs_intervention", priority |-> "normal", minVerbosity |-> 2, cooldownMs |-> 0],
     [type |-> "asm_intervention", priority |-> "normal", minVerbosity |-> 2, cooldownMs |-> 0],
     [type |-> "race_progress",    priority |-> "normal", minVerbosity |-> 2, cooldownMs |-> 0],
     [type |-> "pace_summary",     priority |-> "info",   minVerbosity |-> 3, cooldownMs |-> 0] >>

SeqRange(q) == {q[n] : n \in DOMAIN q}
AllRules == SeqRange(periodicRules) \cup SeqRange(lapRules)
CalloutTypes == {r.type : r \in AllRules}
RuleOf(type) == CHOOSE r \in AllRules : r.type = type

\* lap_delta firing at exactly 500 ms too
lapDeltaFires_AtThreshold(s) ==
  /\ s.lastLapTime > 0 /\ s.bestLapTime > 0 /\ s.lapDelta # 0
  /\ Abs(s.lapDelta) >= 500

\* hasDelta && significant
lapDeltaFires(s) ==
  /\ s.lastLapTime > 0 /\ s.bestLapTime > 0 /\ s.lapDelta # 0
  /\ Abs(s.lapDelta) > 500

\* race_progress without the two `> 0` guards
raceProgressFires_Unguarded(s) ==
  IF s.totalLaps <= 0 THEN FALSE
  ELSE LET remaining == s.totalLaps - s.lapCount
           isEveryFive == s.lapCount % 5 = 0
           isFinalStint == remaining <= 3
       IN isEveryFive \/ isFinalStint

raceProgressFires(s) ==
  IF s.totalLaps <= 0 THEN FALSE
  ELSE LET remaining == s.totalLaps - s.lapCount
           isEveryFive == s.lapCount > 0 /\ s.lapCount % 5 = 0
           isFinalStint == remaining > 0 /\ remaining <= 3
       IN isEveryFive \/ isFinalStint

\* n.toString().padStart(width, "0") for width 2 and 3, n >= 0
PadStart2(n) == IF n < 10 THEN "0" \o ToString(n) ELSE ToString(n)
PadStart3(n) ==
  IF n < 10 THEN "00" \o ToString(n)
  ELSE IF n < 100 THEN "0" \o ToString(n)
  ELSE ToString(n)

formatLapTime(ms) ==
  IF ms < 0 THEN "--:--.---"
  ELSE LET minutes == ms \div 60000
           seconds == (ms % 60000) \div 1000
           millis == ms % 1000
       IN PadStart2(minutes) \o ":" \o PadStart2(seconds) \o "." \o PadStart3(millis)

\* (abs / 1000).toFixed(3): abs is a whole number of milliseconds, so the
\* three decimals are its last three digits
formatDelta(ms) ==
  LET sign == IF ms >= 0 THEN "+" ELSE "-"
      abs == Abs(ms)
  IN sign \o ToString(abs \div 1000) \o "." \o PadStart3(abs % 1000) \o "s"

\* rule.evaluate(snapshot).message; only the sentence of lap_delta is spelled
\* out, the other rules' sentences are the empty string here
RuleMessage(type, s) ==
  IF type = "lap_delta"
    THEN "Last lap " \o formatLapTime(s.lastLapTime) \o ", "
           \o formatDelta(s.lapDelta) \o " to your best."
    ELSE ""

\* rule.evaluate(snapshot).fire
RuleFires(type, s) ==
  CASE type = "fuel_low" ->
         /\ s.fuelUsageEnabled = "true"
         /\ QuotLess(s.estimatedLapsRemaining, 3)
         /\ QuotGreater(s.fuelBurnRate, 0, 1)
    [] type = "tyre_temp_high" -> \E c \in Corners : s.tyreTemps[c] > 100
    [] type = "tyre_trend" -> \E c \in Corners : s.tyreTempTrend[c] = "rising"
    [] type = "lap_delta" -> lapDeltaFires(s)
    [] type = "lap_summary" -> s.lastLapTime > 0
    [] type = "fuel_estimate" ->
         s.fuelUsageEnabled = "true" /\ QuotGreater(s.fuelBurnRate, 0, 1)
    [] type = "rev_limiter" -> QuotGreater(s.revLimiterPercent, 15, 100)
    [] type = "tcs_intervention" -> QuotGreater(s.tcsPercent, 10, 100)
    [] type = "asm_intervention" -> QuotGreater(s.asmPercent, 10, 100)
    [] type = "race_progress" -> raceProgressFires(s)
    [] type = "pace_summary" -> Len(s.recentLapTimes) >= 3

VERBOSITY_FILTER ==
  [v \in 1..3 |-> CASE v = 1 -> {"critical"}
                    [] v = 2 -> {"critical", "normal"}
                    [] v = 3 -> {"critical", "normal", "info"}]

(***************************************************************************)
(* Mutants of shouldFire: one without the cooldown check, one without the  *)
(* verbosity checks.                                                       *)
(***************************************************************************)
shouldFire_NoCooldown(rule, t, v, cd) ==
  /\ ~(rule.minVerbosity > v)
  /\ rule.priority \in VERBOSITY_FILTER[v]

shouldFire_NoVerbosity(rule, t, v, cd) ==
  ~(rule.cooldownMs > 0 /\ t - cd[rule.type] < rule.cooldownMs)

\* shouldFire(rule, now), reading the engine's verbosity v and cooldowns cd
shouldFire(rule, t, v, cd) ==
  IF rule.minVerbosity > v THEN FALSE
  ELSE IF rule.priority \notin VERBOSITY_FILTER[v] THEN FALSE
  ELSE LET lastFired == cd[rule.type] IN
       IF rule.cooldownMs > 0 /\ t - lastFired < rule.cooldownMs THEN FALSE
       ELSE TRUE

\* runRules(rules, snapshot): the loop from rule n on; acc = [callouts, cooldowns]
RECURSIVE runRulesFrom(_, _, _, _, _, _)
runRulesFrom(rules, n, s, t, v, acc) ==
  IF n > Len(rules) THEN acc
  ELSE LET rule == rules[n] IN
       IF ~shouldFire(rule, t, v, acc.cooldowns)
         THEN runRulesFrom(rules, n + 1, s, t, v, acc)
       ELSE IF ~RuleFires(rule.type, s)
         THEN runRulesFrom(rules, n + 1, s, t, v, acc)
       ELSE runRulesFrom(rules, n + 1, s, t, v,
              [cooldowns |-> [acc.cooldowns EXCEPT ![rule.type] = t],
               callouts |-> Append(acc.callouts,
                  [type |-> rule.type, priority |-> rule.priority,
                   message |-> RuleMessage(rule.type, s), timestamp |-> t])])

runRules(rules, s, t, v, cd) ==
  runRulesFrom(rules, 1, s, t, v, [cooldowns |-> cd, callouts |-> <<>>])

(***************************************************************************)
(* Snapshots handed to the engine in SpecCallouts.                         *)
(***************************************************************************)
SnapIdle ==
  [lapCount |-> 0, totalLaps |-> 0, lastLapTime |-> -1, bestLapTime |-> -1,
   lapDelta |-> 0, lapTimeTrend |-> "consistent", recentLapTimes |-> <<>>,
   fuelLevel |-> 4000, fuelCapacity |-> 4000, fuelBurnRate |-> Quot(0, 1),
   estimatedLapsRemaining |-> PosInfinity, fuelUsageEnabled |-> "null",
   tyreTemps |-> [c \in Corners |-> 80],
   tyreTempTrend |-> [c \in Corners |-> "stable"],
   revLimiterPercent |-> Quot(0, 1), tcsPercent |-> Quot(0, 1),
   asmPercent |-> Quot(0, 1),
   speed |-> 0, topSpeedThisLap |-> 0, currentGear |-> 0, suggestedGear |-> 0,
   engineRPM |-> 0, carCode |-> 0, carOnTrack |-> TRUE,
   sessionDurationMs |-> 0, currentLapStartedAt |-> 0]

\* a front-left tyre over the limit, no lap completed yet
SnapHot ==
  [SnapIdle EXCEPT
     !.tyreTemps = [c \in Corners |-> IF c = "fl" THEN 105 ELSE 90]]

\* low fuel, a rising rear-left tyre, and a completed lap every lap rule speaks of
SnapFuel ==
  [SnapIdle EXCEPT
     !.lapCount = 8, !.totalLaps = 10, !.lastLapTime = 102350, !.bestLapTime = 101823,
     !.lapDelta = 527,
     !.recentLapTimes = <<101823, 102000, 102350>>, !.lapTimeTrend = "degrading",
     !.fuelLevel = 600, !.fuelBurnRate = Quot(300, 1),
     !.estimatedLapsRemaining = Quot(600, 300), !.fuelUsageEnabled = "true",
     !.tyreTempTrend = [c \in Corners |-> IF c = "rl" THEN "rising" ELSE "stable"],
     !.revLimiterPercent = Quot(20, 100), !.tcsPercent = Quot(11, 100),
     !.asmPercent = Quot(1, 2)]

SampleSnapshots == {SnapIdle, SnapHot, SnapFuel}

(***************************************************************************)
(* The wall clock of SpecCallouts: the instants at which calls are made.   *)
(***************************************************************************)
StartTime == 100000
ClockOffsets == {0, 30000, 59999, 60000}
Instants == {StartTime + d : d \in ClockOffsets}

(***************************************************************************)
(* Actions of the callout engine.                                          *)
(***************************************************************************)
CooldownTypes == {ty \in CalloutTypes : RuleOf(ty).cooldownMs > 0}

\* the observer notes the callouts a call returned
Observe(sn, callouts) ==
  [ty \in DOMAIN sn |->
     IF \E n \in DOMAIN callouts : callouts[n].type = ty
     THEN LET c == callouts[CHOOSE n \in DOMAIN callouts : callouts[n].type = ty]
          IN [prev |-> sn[ty].last, last |-> c.timestamp]
     ELSE sn[ty]]

EngineEvaluate(s) ==
  \E r \in {runRules(periodicRules, s, now, verbosity, cooldowns)} :
  /\ cooldowns' = r.cooldowns
  /\ returned' = r.callouts
  /\ evaluated' = << [set |-> "periodic", snapshot |-> s] >>
  /\ seen' = Observe(seen, r.callouts)
  /\ sent' = <<>>
  /\ UNCHANGED <<nonCoVars, now, verbosity, requested>>

EngineOnLapComplete(s) ==
  \E r \in {runRules(lapRules, s, now, verbosity, cooldowns)} :
  /\ cooldowns' = r.cooldowns
  /\ returned' = r.callouts
  /\ evaluated' = << [set |-> "lap", snapshot |-> s] >>
  /\ seen' = Observe(seen, r.callouts)
  /\ sent' = <<>>
  /\ UNCHANGED <<nonCoVars, now, verbosity, requested>>

SetVerbosity(level) ==
  /\ verbosity' = level
  /\ requested' = level
  /\ returned' = <<>>
  /\ evaluated' = <<>>
  /\ sent' = <<>>
  /\ UNCHANGED <<nonCoVars, now, cooldowns, seen>>

ClockAdvance(t) ==
  /\ t > now
  /\ now' = t
  /\ returned' = <<>>
  /\ evaluated' = <<>>
  /\ handled' = <<>>
  /\ hbSent' = {}
  /\ sent' = <<>>
  /\ UNCHANGED <<engVars, anVars, verbosity, requested, cooldowns, seen,
                 contextUpdateCounter>>
  /\ UNCHANGED <<broadcastAddresses, explicitIP, ps5Targets, discoveredPS5, lastBroadcast>>

CoInit ==
  /\ now = StartTime
  /\ verbosity = 2
  /\ requested = 2
  /\ cooldowns = [ty \in CalloutTypes |-> 0]
  /\ returned = <<>>
  /\ evaluated = <<>>
  /\ seen = [ty \in CooldownTypes |-> [prev |-> 0, last |-> 0]]
  /\ sent = <<>>
  /\ contextUpdateCounter = 0

\* the engineer:verbosity event of a connected client
ClientSetVerbosity(s, level) == s \in sockets /\ SetVerbosity(level)

\* the levels a client can ask for
Levels == 1..3

\* clients connecting, starting and stopping voice sessions with a
\* verbosity, and setting the verbosity
NextVerbosity ==
  \/ \E s \in SocketIds : SocketConnect(s)
  \/ \E s \in SocketIds : SocketDisconnect(s)
  \/ \E s \in SocketIds, level \in Levels : EngineerStartWith(s, level)
  \/ \E s \in SocketIds : EngineerStop(s)
  \/ \E k \in 1..MaxSessions, ok \in BOOLEAN : ConnectResolve(k, ok)
  \/ \E s \in SocketIds, level \in Levels : ClientSetVerbosity(s, level)

NextCallouts ==
  \/ \E s \in SampleSnapshots : EngineEvaluate(s)
  \/ \E s \in SampleSnapshots : EngineOnLapComplete(s)
  \/ \E level \in 1..3 : SetVerbosity(level)
  \/ \E t \in Instants : ClockAdvance(t)

(***************************************************************************)
(* 32-bit words as two 16-bit halves, and the Salsa20 keystream.           *)
(***************************************************************************)
Word(hi, lo) == [hi |-> hi, lo |-> lo]
Half == 65536

RECURSIVE Xor16(_, _, _)
Xor16(a, b, n) ==
  IF n = 0 THEN 0 ELSE ((a + b) % 2) + 2 * Xor16(a \div 2, b \div 2, n - 1)

Xor32(x, y) == Word(Xor16(x.hi, y.hi, 16), Xor16(x.lo, y.lo, 16))

\* (x + y) >>> 0
Add32(x, y) ==
  Word((x.hi + y.hi + ((x.lo + y.lo) \div Half)) % Half, (x.lo + y.lo) % Half)

\* rotl(v, n) for 0 < n < 32, n # 16
rotl(v, n) ==
  LET w == IF n >= 16 THEN Word(v.lo, v.hi) ELSE v
      k == n % 16
  IN Word(((w.hi * 2^k) % Half) + (w.lo \div 2^(16 - k)),
          ((w.lo * 2^k) % Half) + (w.hi \div 2^(16 - k)))

\* x[t] ^= rotl((x[a] + x[b]) >>> 0, r): the column round, then the row round
QuarterSteps ==
  << <<4, 0, 12, 7>>,   <<8, 4, 0, 9>>,    <<12, 8, 4, 13>>,  <<0, 12, 8, 18>>,
     <<9, 5, 1, 7>>,    <<13, 9, 5, 9>>,   <<1, 13, 9, 13>>,  <<5, 1, 13, 18>>,
     <<14, 10, 6, 7>>,  <<2, 14, 10, 9>>,  <<6, 2, 14, 13>>,  <<10, 6, 2, 18>>,
     <<3, 15, 11, 7>>,  <<7, 3, 15, 9>>,   <<11, 7, 3, 13>>,  <<15, 11, 7, 18>>,
     <<1, 0, 3, 7>>,    <<2, 1, 0, 9>>,    <<3, 2, 1, 13>>,   <<0, 3, 2, 18>>,
     <<6, 5, 4, 7>>,    <<7, 6, 5, 9>>,    <<4, 7, 6, 13>>,   <<5, 4, 7, 18>>,
     <<11, 10, 9, 7>>,  <<8, 11, 10, 9>>,  <<9, 8, 11, 13>>,  <<10, 9, 8, 18>>,
     <<12, 15, 14, 7>>, <<13, 12, 15, 9>>, <<14, 13, 12, 13>>, <<15, 14, 13, 18>> >>

\* each step is applied to the value of the state before it
RECURSIVE ApplySteps(_, _)
ApplySteps(x, n) ==
  IF n > Len(QuarterSteps) THEN x
  ELSE LET st == QuarterSteps[n] IN
       CHOOSE r \in {ApplySteps(y, n + 1) :
                       y \in {[x EXCEPT ![st[1]] =
                                 Xor32(@, rotl(Add32(x[st[2]], x[st[3]]), st[4]))]}} : TRUE

RECURSIVE DoubleRounds(_, _)
DoubleRounds(x, i) ==
  IF i = 0 THEN x
  ELSE CHOOSE r \in {DoubleRounds(y, i - 1) : y \in {ApplySteps(x, 1)}} : TRUE

salsa20Core(input) ==
  LET x == DoubleRounds(input, 10) IN [i \in 0..15 |-> Add32(x[i], input[i])]

\* "Simulator Interface Packet GT7 v" and "expand 32-byte k" as little-endian words
keyWords ==
  << Word(30061, 26963), Word(28532, 24940), Word(28233, 8306), Word(26226, 25972),
     Word(8293, 25441), Word(27491, 24912), Word(18208, 29797), Word(30240, 14164) >>
sigmaWords ==
  << Word(24944, 30821), Word(13088, 25710), Word(31074, 11570), Word(27424, 25972) >>

\* the first keystream block of salsa20Decrypt for the nonce (iv2, iv1)
KeystreamBlock(iv2, iv1) ==
  salsa20Core(
    [i \in 0..15 |->
       CASE i = 0 -> sigmaWords[1]
         [] i \in 1..4 -> keyWords[i]
         [] i = 5 -> sigmaWords[2]
         [] i = 6 -> iv2
         [] i = 7 -> iv1
         [] i \in 8..9 -> Word(0, 0)
         [] i = 10 -> sigmaWords[3]
         [] i \in 11..14 -> keyWords[i - 6]
         [] i = 15 -> sigmaWords[4]])

(***************************************************************************)
(* The telemetry analyzer (createTelemetryAnalyzer).  Its closure          *)
(* variables are the fields of one record; fuel is counted in hundredths   *)
(* of a litre, temperatures in whole degrees, times in ms.                 *)
(***************************************************************************)
TEMP_WINDOW_MS == 5000
TREND_THRESHOLD == 3
FUEL_CHECK_TIMES_MS == <<5000, 10000, 15000, 20000, 25000, 30000>>
\* hundredths per litre: the -1 sentinels are -FuelScale, 0.01 is 1
FuelScale == 100

AnalyzerInit ==
  [sessionStartedAt |-> 0, currentLapStartedAt |-> 0, lastLapCount |-> -1,
   recentLapTimes |-> <<>>, fuelAtLapStart |-> <<>>,
   lapPacketCount |-> 0, revLimiterCount |-> 0, tcsCount |-> 0, asmCount |-> 0,
   topSpeedThisLap |-> 0,
   fuelUsageEnabled |-> "null", lastFuelLevel |-> -FuelScale,
   initialFuelLevel |-> -FuelScale, nextFuelCheckIndex |-> 0,
   tempHistory |-> [c \in Corners |-> <<>>],
   latest |-> <<>>, wasOnTrack |-> FALSE,
   raceCarCode |-> -1, raceLastBestLap |-> -1, raceLastLapCount |-> -1]

\* the refill rule without the fuel flag and without the positive last level
isNewRace_AnyRefill(A, data) ==
  IF A.raceCarCode = -1 THEN TRUE
  ELSE IF data.carCode # A.raceCarCode THEN TRUE
  ELSE IF data.lapCount = 0 /\ A.raceLastLapCount > 0 THEN TRUE
  ELSE IF data.lapCount < A.raceLastLapCount - 1 THEN TRUE
  ELSE IF data.bestLapTime < 0 /\ A.raceLastBestLap > 0 THEN TRUE
  ELSE IF /\ 100 * data.fuelLevel >= 99 * data.fuelCapacity
          /\ 100 * A.lastFuelLevel < 95 * data.fuelCapacity
       THEN TRUE
  ELSE FALSE

isNewRace(A, data) ==
  IF A.raceCarCode = -1 THEN TRUE
  ELSE IF data.carCode # A.raceCarCode THEN TRUE
  ELSE IF data.lapCount = 0 /\ A.raceLastLapCount > 0 THEN TRUE
  ELSE IF data.lapCount < A.raceLastLapCount - 1 THEN TRUE
  ELSE IF data.bestLapTime < 0 /\ A.raceLastBestLap > 0 THEN TRUE
  ELSE IF /\ A.fuelUsageEnabled = "true"
          /\ 100 * data.fuelLevel >= 99 * data.fuelCapacity
          /\ A.lastFuelLevel > 0
          /\ 100 * A.lastFuelLevel < 95 * data.fuelCapacity
       THEN TRUE
  ELSE FALSE

\* resetLapCounters leaving the top speed of the lap
resetLapCounters_KeepTopSpeed(A) ==
  [A EXCEPT !.lapPacketCount = 0, !.revLimiterCount = 0, !.tcsCount = 0,
            !.asmCount = 0]

resetLapCounters(A) ==
  [A EXCEPT !.lapPacketCount = 0, !.revLimiterCount = 0, !.tcsCount = 0,
            !.asmCount = 0, !.topSpeedThisLap = 0]

\* resetSession keeping the tyre samples
resetSession_KeepTyres(A, t) ==
  [resetLapCounters(A) EXCEPT
     !.sessionStartedAt = t, !.currentLapStartedAt = t, !.lastLapCount = -1,
     !.recentLapTimes = <<>>, !.fuelAtLapStart = <<>>,
     !.fuelUsageEnabled = "null",
     !.lastFuelLevel = -FuelScale, !.initialFuelLevel = -FuelScale,
     !.nextFuelCheckIndex = 0]

resetSession(A, t) ==
  [resetLapCounters(A) EXCEPT
     !.sessionStartedAt = t, !.currentLapStartedAt = t, !.lastLapCount = -1,
     !.recentLapTimes = <<>>, !.fuelAtLapStart = <<>>,
     !.fuelUsageEnabled = "null",
     !.lastFuelLevel = -FuelScale, !.initialFuelLevel = -FuelScale,
     !.nextFuelCheckIndex = 0,
     !.tempHistory = [c \in Corners |-> <<>>]]

\* handleLapChange dropping the newest instead of the oldest lap time
handleLapChange_DropNewest(A, data, t) ==
  LET pushed == IF data.lastLapTime > 0 THEN Append(A.recentLapTimes, data.lastLapTime)
                ELSE A.recentLapTimes
      kept == IF Len(pushed) > 5 THEN SubSeq(pushed, 1, 5) ELSE pushed
  IN [resetLapCounters(A) EXCEPT
        !.recentLapTimes = kept,
        !.fuelAtLapStart = Append(@, data.fuelLevel),
        !.currentLapStartedAt = t]

handleLapChange(A, data, t) ==
  LET pushed == IF data.lastLapTime > 0 THEN Append(A.recentLapTimes, data.lastLapTime)
                ELSE A.recentLapTimes
      kept == IF Len(pushed) > 5 THEN Tail(pushed) ELSE pushed
  IN [resetLapCounters(A) EXCEPT
        !.recentLapTimes = kept,
        !.fuelAtLapStart = Append(@, data.fuelLevel),
        !.currentLapStartedAt = t]

\* the pruning loop: drop leading samples older than the cutoff
RECURSIVE Prune(_, _)
Prune(samples, cutoff) ==
  IF Len(samples) > 0 /\ samples[1].timestamp < cutoff
    THEN Prune(Tail(samples), cutoff)
    ELSE samples

recordTempSample(A, data, t) ==
  [A EXCEPT !.tempHistory =
     [c \in Corners |->
        Prune(Append(A.tempHistory[c], [value |-> data.tyreTemp[c], timestamp |-> t]),
              t - TEMP_WINDOW_MS)]]

getTempTrend(samples) ==
  IF Len(samples) < 2 THEN "stable"
  ELSE LET diff == samples[Len(samples)].value - samples[1].value IN
       IF diff > TREND_THRESHOLD THEN "rising"
       ELSE IF diff < -TREND_THRESHOLD THEN "cooling"
       ELSE "stable"

RECURSIVE SumSeq(_)
SumSeq(q) == IF q = <<>> THEN 0 ELSE Head(q) + SumSeq(Tail(q))

\* the last n elements of q (q.slice(-n))
LastN(q, n) == IF Len(q) <= n THEN q ELSE SubSeq(q, Len(q) - n + 1, Len(q))

\* burns of the full laps, in order: fuelAtLapStart[i-1] - fuelAtLapStart[i], i >= 2
RECURSIVE FullLapBurns(_, _)
FullLapBurns(fuel, i) ==
  IF i > Len(fuel) THEN <<>>
  ELSE LET burn == fuel[i - 1] - fuel[i] IN
       (IF burn > 0 THEN <<burn>> ELSE <<>>) \o FullLapBurns(fuel, i + 1)

\* the burn rate with the first interval counted as a full lap
calculateFuelBurnRate_WithOutLap(A) ==
  IF Len(A.fuelAtLapStart) < 3 THEN Quot(0, 1)
  ELSE LET fullLapBurns == FullLapBurns(A.fuelAtLapStart, 2) IN
       IF Len(fullLapBurns) = 0 THEN Quot(0, 1)
       ELSE LET recent == LastN(fullLapBurns, 3) IN Quot(SumSeq(recent), Len(recent))

calculateFuelBurnRate(A) ==
  IF Len(A.fuelAtLapStart) < 3 THEN Quot(0, 1)
  ELSE LET fullLapBurns == FullLapBurns(A.fuelAtLapStart, 3) IN
       IF Len(fullLapBurns) = 0 THEN Quot(0, 1)
       ELSE LET recent == LastN(fullLapBurns, 3) IN Quot(SumSeq(recent), Len(recent))

getLapTimeTrend(A) ==
  IF Len(A.recentLapTimes) < 3 THEN "consistent"
  ELSE LET last3 == LastN(A.recentLapTimes, 3) IN
       IF last3[2] < last3[1] /\ last3[3] < last3[2] THEN "improving"
       ELSE IF last3[2] > last3[1] /\ last3[3] > last3[2] THEN "degrading"
       ELSE "consistent"

\* the scheduled check, run again after the flag was determined
FuelCheckDue_Recheck(A, t) ==
  /\ A.nextFuelCheckIndex < Len(FUEL_CHECK_TIMES_MS)
  /\ t - A.sessionStartedAt >= FUEL_CHECK_TIMES_MS[A.nextFuelCheckIndex + 1]

\* any drop below the initial level counted as consumption
FuelConsumed_AnyDrop(A, data) == A.initialFuelLevel - data.fuelLevel > 0

\* consumed > 0.01
FuelConsumed(A, data) == A.initialFuelLevel - data.fuelLevel > 1

\* the check only once its time has passed
FuelCheckDue_Late(A, t) ==
  /\ A.fuelUsageEnabled = "null"
  /\ A.nextFuelCheckIndex < Len(FUEL_CHECK_TIMES_MS)
  /\ t - A.sessionStartedAt > FUEL_CHECK_TIMES_MS[A.nextFuelCheckIndex + 1]

\* fuelUsageEnabled === null, a check left, and its time reached
FuelCheckDue(A, t) ==
  /\ A.fuelUsageEnabled = "null"
  /\ A.nextFuelCheckIndex < Len(FUEL_CHECK_TIMES_MS)
  /\ t - A.sessionStartedAt >= FUEL_CHECK_TIMES_MS[A.nextFuelCheckIndex + 1]

\* a reset on every resumption after a pause as well
DeclaresNewRace_OnResume(A, data) ==
  data.carOnTrack /\ (isNewRace(A, data) \/ ~A.wasOnTrack)

\* data.carOnTrack && isNewRace(data)
DeclaresNewRace(A, data) == data.carOnTrack /\ isNewRace(A, data)

\* a lap change seen on the first frame of a race as well
LapChanged_AfterReset(A, data) == data.lapCount # A.lastLapCount

\* lastLapCount >= 0 && data.lapCount !== lastLapCount
LapChanged(A, data) == A.lastLapCount >= 0 /\ data.lapCount # A.lastLapCount

\* onPacket up to and including the lap-change detection; lapChanged tells
\* whether handleLapChange ran (the lap-change callback is called right then)
onPacketHead(A, data, t) ==
  LET A1 == [A EXCEPT !.latest = <<data>>]
      newRace == DeclaresNewRace(A1, data)
      A2 == IF newRace
              THEN [resetSession(A1, t) EXCEPT !.fuelAtLapStart = Append(@, data.fuelLevel)]
              ELSE A1
      A3 == [A2 EXCEPT !.wasOnTrack = data.carOnTrack]
      A4 == [A3 EXCEPT
               !.raceCarCode = data.carCode,
               !.raceLastLapCount = data.lapCount,
               !.raceLastBestLap = IF data.bestLapTime > 0 THEN data.bestLapTime ELSE @,
               !.initialFuelLevel = IF @ < 0 THEN data.fuelLevel ELSE @]
      idx == A4.nextFuelCheckIndex
      A5 == IF FuelCheckDue(A4, t)
              THEN [A4 EXCEPT
                      !.fuelUsageEnabled =
                         IF FuelConsumed(A4, data) THEN "true"
                         ELSE IF idx >= Len(FUEL_CHECK_TIMES_MS) - 1 THEN "false"
                         ELSE @,
                      !.nextFuelCheckIndex = idx + 1]
              ELSE A4
      A6 == [A5 EXCEPT !.lastFuelLevel = data.fuelLevel]
      lapChanged == LapChanged(A6, data)
  IN IF ~data.carOnTrack
       THEN [A |-> A3, newRace |-> FALSE, lapChanged |-> FALSE, resumed |-> FALSE]
       ELSE [A |-> IF lapChanged THEN handleLapChange(A6, data, t) ELSE A6,
             newRace |-> newRace, lapChanged |-> lapChanged,
             resumed |-> ~newRace /\ ~A.wasOnTrack]

\* the rest of onPacket, for an on-track frame
onPacketTail(A, data, t) ==
  recordTempSample(
    [A EXCEPT !.lastLapCount = data.lapCount,
              !.lapPacketCount = @ + 1,
              !.revLimiterCount = IF data.revLimiter THEN @ + 1 ELSE @,
              !.tcsCount = IF data.tcsActive THEN @ + 1 ELSE @,
              !.asmCount = IF data.asmActive THEN @ + 1 ELSE @,
              !.topSpeedThisLap = IF data.speed > @ THEN data.speed ELSE @],
    data, t)

estimateFuelLapsRemaining(A, currentFuel, perLapBurnRate, t) ==
  IF QuotGreater(perLapBurnRate, 0, 1)
    THEN Quot(currentFuel * perLapBurnRate.den, perLapBurnRate.num)
  ELSE IF A.initialFuelLevel > 0 /\ currentFuel < A.initialFuelLevel
    THEN LET consumed == A.initialFuelLevel - currentFuel
             elapsedMs == t - A.sessionStartedAt
             d == A.latest[1]
             refLapMs == IF d.bestLapTime > 0 THEN d.bestLapTime
                         ELSE IF d.lastLapTime > 0 THEN d.lastLapTime
                         ELSE 0
         IN IF elapsedMs > 5000 /\ consumed > 1 /\ refLapMs # 0
              THEN Quot(currentFuel * elapsedMs, consumed * refLapMs)
              ELSE PosInfinity
  ELSE PosInfinity

\* the difference without the guard on both lap times
LapDelta_Unguarded(d) == d.lastLapTime - d.bestLapTime

\* d.lastLapTime > 0 && d.bestLapTime > 0 ? d.lastLapTime - d.bestLapTime : 0
LapDelta(d) ==
  IF d.lastLapTime > 0 /\ d.bestLapTime > 0 THEN d.lastLapTime - d.bestLapTime ELSE 0

\* the gate without the flag
WhenFuelUsed_Ungated(flag, value, otherwise) == value

\* fuelUsageEnabled === true ? value : otherwise
WhenFuelUsed(flag, value, otherwise) == IF flag = "true" THEN value ELSE otherwise

getSnapshot(A, t) ==
  LET has == A.latest # <<>>
      d == A.latest[1]
      burnRate == calculateFuelBurnRate(A)
      safeDivide == IF A.lapPacketCount > 0 THEN A.lapPacketCount ELSE 1
      currentFuel == IF has THEN d.fuelLevel ELSE 0
  IN [lapCount |-> IF has THEN d.lapCount ELSE 0,
      totalLaps |-> IF has THEN d.totalLaps ELSE 0,
      lastLapTime |-> IF has THEN d.lastLapTime ELSE -1,
      bestLapTime |-> IF has THEN d.bestLapTime ELSE -1,
      lapDelta |-> IF has THEN LapDelta(d) ELSE 0,
      lapTimeTrend |-> getLapTimeTrend(A),
      recentLapTimes |-> A.recentLapTimes,
      fuelLevel |-> currentFuel,
      fuelCapacity |-> IF has THEN d.fuelCapacity ELSE 0,
      fuelBurnRate |-> WhenFuelUsed(A.fuelUsageEnabled, burnRate, Quot(0, 1)),
      estimatedLapsRemaining |->
         WhenFuelUsed(A.fuelUsageEnabled,
                      estimateFuelLapsRemaining(A, currentFuel, burnRate, t),
                      PosInfinity),
      fuelUsageEnabled |-> A.fuelUsageEnabled,
      tyreTemps |-> IF has THEN d.tyreTemp ELSE [c \in Corners |-> 0],
      tyreTempTrend |-> [c \in Corners |-> getTempTrend(A.tempHistory[c])],
      revLimiterPercent |-> Quot(A.revLimiterCount, safeDivide),
      tcsPercent |-> Quot(A.tcsCount, safeDivide),
      asmPercent |-> Quot(A.asmCount, safeDivide),
      speed |-> IF has THEN d.speed ELSE 0,
      topSpeedThisLap |-> A.topSpeedThisLap,
      currentGear |-> IF has THEN d.currentGear ELSE 0,
      suggestedGear |-> IF has THEN d.suggestedGear ELSE 0,
      engineRPM |-> IF has THEN d.engineRPM ELSE 0,
      carCode |-> IF has THEN d.carCode ELSE 0,
      carOnTrack |-> IF has THEN d.carOnTrack ELSE FALSE,
      sessionDurationMs |-> IF A.sessionStartedAt > 0 THEN t - A.sessionStartedAt ELSE 0,
      currentLapStartedAt |-> A.currentLapStartedAt]

\* the returned array being the analyzer's own
CallerWrites_Shared(A, written) == [A EXCEPT !.recentLapTimes = written]

\* what a caller's write to snapshot.recentLapTimes does to the analyzer: the
\* snapshot holds [...recentLapTimes], a copy
CallerWrites(A, written) == A

(***************************************************************************)
(* Datagrams and the decoder (processPacket).                              *)
(***************************************************************************)
PACKET_SIZE == 296
MAGIC_GT7 == 1194808112
BROADCAST_HZ == 30

\* readInt32LE of a word
ToInt32(w) == IF w.hi >= 32768 THEN (w.hi - Half) * Half + w.lo ELSE w.hi * Half + w.lo
\* the word readInt32LE reads as MAGIC_GT7
MagicWord == Word(MAGIC_GT7 \div Half, MAGIC_GT7 % Half)

DEADBEAF == Word(57005, 48815)
SampleIVs == {Word(0, 1), DEADBEAF}
\* first keystream word for each sample value of bytes 0x40..0x43
Keystream0 == [iv1 \in SampleIVs |-> KeystreamBlock(Xor32(iv1, DEADBEAF), iv1)[0]]

NoFrame == <<>>

\* parsePacket: the fields read from the decrypted bytes
parsePacket(magic, body) == [magic |-> magic] @@ body

\* the decoder without the magic check
processPacket_NoMagic(msg) ==
  IF msg.length < PACKET_SIZE THEN NoFrame
  ELSE << parsePacket(ToInt32(Xor32(msg.word0, Keystream0[msg.iv1])), msg.data) >>

\* a datagram: its sender, its length, bytes 0x40..0x43 (iv1), bytes 0..3
\* (word0), and the telemetry its remaining bytes decrypt to (data)
processPacket(msg) ==
  IF msg.length < PACKET_SIZE THEN NoFrame
  ELSE LET decrypted0 == Xor32(msg.word0, Keystream0[msg.iv1])
           magic == ToInt32(decrypted0)
       IN IF magic # MAGIC_GT7 THEN NoFrame
          ELSE << parsePacket(magic, msg.data) >>

(***************************************************************************)
(* Addresses and getBroadcastAddresses.                                    *)
(***************************************************************************)
NoAddr == <<>>
LimitedBroadcast == <<255, 255, 255, 255>>

RECURSIVE Or8(_, _, _)
Or8(a, b, n) ==
  IF n = 0 THEN 0
  ELSE (IF a % 2 = 1 \/ b % 2 = 1 THEN 1 ELSE 0) + 2 * Or8(a \div 2, b \div 2, n - 1)

getBroadcastAddresses(interfaces) ==
  LET addresses ==
        {[i \in 1..4 |-> Or8(info.address[i], 255 - info.netmask[i], 8)] :
           info \in {x \in SeqRange(interfaces) :
                       x.family = "IPv4" /\ ~x.internal /\ x.netmask # <<>>}}
  IN IF addresses # {} THEN addresses ELSE {LimitedBroadcast}

Loopback ==
  [family |-> "IPv4", internal |-> TRUE, address |-> <<127, 0, 0, 1>>,
   netmask |-> <<255, 0, 0, 0>>]
Lan ==
  [family |-> "IPv4", internal |-> FALSE, address |-> <<192, 168, 1, 10>>,
   netmask |-> <<255, 255, 255, 0>>]
Vpn ==
  [family |-> "IPv4", internal |-> FALSE, address |-> <<10, 8, 3, 5>>,
   netmask |-> <<255, 255, 240, 0>>]
LinkLocal6 ==
  [family |-> "IPv6", internal |-> FALSE, address |-> <<254, 128, 0, 1>>,
   netmask |-> <<255, 255, 0, 0>>]
SampleInterfaces == {<<Loopback>>, <<Loopback, Lan, LinkLocal6>>, <<Lan, Vpn>>}

Senders == {<<192, 168, 1, 42>>, <<192, 168, 1, 77>>}

SampleWords == {MagicWord} \cup {Xor32(MagicWord, Keystream0[iv1]) : iv1 \in SampleIVs}

\* telemetry of a car on track, on lap 1 with a full 40 l tank
FrameBase ==
  [carOnTrack |-> TRUE, carCode |-> 1, lapCount |-> 1, totalLaps |-> 0,
   bestLapTime |-> -1, lastLapTime |-> -1, fuelLevel |-> 4000, fuelCapacity |-> 4000,
   revLimiter |-> FALSE, tcsActive |-> FALSE, asmActive |-> FALSE, speed |-> 180,
   tyreTemp |-> [c \in Corners |-> 80],
   currentGear |-> 4, suggestedGear |-> 4, engineRPM |-> 6000]
FramePaused == [FrameBase EXCEPT !.carOnTrack = FALSE]
\* what the game sends from its menus
FrameMenu ==
  [FrameBase EXCEPT !.carOnTrack = FALSE, !.carCode = 2, !.lapCount = 0,
                    !.fuelLevel = 0, !.speed = 0]

\* a well-formed datagram carrying the telemetry `data`
DatagramOf(data) ==
  [sender |-> <<192, 168, 1, 42>>, length |-> PACKET_SIZE, iv1 |-> DEADBEAF,
   word0 |-> Xor32(MagicWord, Keystream0[DEADBEAF]), data |-> data]

\* datagrams of SpecUdp: every length, nonce, first word and sender around one
\* telemetry, and a well-formed one with another telemetry
SampleDatagrams ==
  [sender : Senders, length : {0, 295, 296, 344}, iv1 : SampleIVs, word0 : SampleWords,
   data : {FramePaused}]
  \cup {DatagramOf(FrameMenu)}

\* the instants of SpecUdp: 33 and 34 ms apart, around the 1000/30 ms throttle
ThrottleOffsets == {0, 33, 34, 67}
ThrottleInstants == {StartTime + d : d \in ThrottleOffsets}

(***************************************************************************)
(* Actions of the UDP side.                                                *)
(***************************************************************************)
\* a broadcast of every frame
shouldBroadcast_Always == TRUE

\* shouldBroadcast(): now - lastBroadcast >= 1000 / BROADCAST_HZ
shouldBroadcast == BROADCAST_HZ * (now - lastBroadcast) >= 1000

\* the auto-discovery without its latch: every valid frame re-targets
ShouldLock_EveryFrame == explicitIP = NoAddr

\* !discoveredPS5 && !explicitIP
ShouldLock == discoveredPS5 = NoAddr /\ explicitIP = NoAddr

\* what the observer of lap times notes of a frame
NoteLap(seenLaps, data, head) ==
  IF head.newRace THEN <<>>
  ELSE IF head.lapChanged /\ data.lastLapTime > 0 THEN Append(seenLaps, data.lastLapTime)
  ELSE seenLaps

(***************************************************************************)
(* logger.ts: the session logger.  A stream is open or not; startedAt,     *)
(* endedAt and the file names are left out.                                *)
(***************************************************************************)
IDLE_TIMEOUT_MS == 30000

LoggerInit ==
  [stream |-> FALSE, meta |-> <<>>, wasOnTrack |-> FALSE, idleTimer |-> 0,
   opened |-> 0, ended |-> 0, linesWritten |-> 0, finalized |-> <<>>]

\* the closure variables of a logger record, what the observer counts, and
\* the two together (the counts from 0 where nobody observes)
Closure(L) ==
  [stream |-> L.stream, meta |-> L.meta, wasOnTrack |-> L.wasOnTrack,
   idleTimer |-> L.idleTimer]
Observed(L, watch) ==
  IF watch = <<>> THEN <<>>
  ELSE << [opened |-> L.opened, ended |-> L.ended, linesWritten |-> L.linesWritten,
           finalized |-> L.finalized] >>
Watched(closure, watch) ==
  LET o == IF watch = <<>> THEN LoggerInit ELSE watch[1]
  IN [stream |-> closure.stream, meta |-> closure.meta,
      wasOnTrack |-> closure.wasOnTrack, idleTimer |-> closure.idleTimer,
      opened |-> o.opened, ended |-> o.ended, linesWritten |-> o.linesWritten,
      finalized |-> o.finalized]

\* startSession(data)
LoggerStartSession(L, data) ==
  [L EXCEPT !.stream = TRUE,
            !.meta = << [carCode |-> data.carCode, totalLaps |-> data.totalLaps,
                         bestLapTime |-> data.bestLapTime, packets |-> 0] >>,
            !.opened = @ + 1, !.linesWritten = 0]

\* endSession writing the metadata and leaving the stream open
LoggerEndSession_KeepStream(L) ==
  IF ~L.stream \/ L.meta = <<>> THEN L
  ELSE [L EXCEPT !.finalized = << [packets |-> L.meta[1].packets,
                                   lines |-> L.linesWritten] >>]

\* endSession()
LoggerEndSession(L) ==
  IF ~L.stream \/ L.meta = <<>> THEN L
  ELSE [L EXCEPT !.finalized = << [packets |-> L.meta[1].packets,
                                   lines |-> L.linesWritten] >>,
                 !.ended = @ + 1,
                 !.stream = FALSE, !.meta = <<>>]

\* logger.onPacket(data) at time t; resetIdleTimer() replaces the pending timer
LoggerOnPacket(L, data, t) ==
  LET onTrack == data.carOnTrack
      L1 == IF onTrack /\ ~L.wasOnTrack THEN LoggerStartSession(L, data) ELSE L
      L2 == IF ~onTrack /\ L.wasOnTrack THEN LoggerEndSession(L1) ELSE L1
      L3 == [L2 EXCEPT !.wasOnTrack = onTrack]
  IN IF L3.stream /\ onTrack
       THEN [L3 EXCEPT
               !.linesWritten = @ + 1,
               !.meta = IF @ = <<>> THEN @
                        ELSE << [@[1] EXCEPT
                                   !.packets = @ + 1,
                                   !.bestLapTime = IF data.bestLapTime > 0
                                                     THEN data.bestLapTime ELSE @,
                                   !.totalLaps = data.totalLaps] >>,
               !.idleTimer = t + IDLE_TIMEOUT_MS]
       ELSE L3

\* the idle timer's callback, not before its time
LoggerIdle ==
  /\ logger.idleTimer # 0
  /\ now >= logger.idleTimer
  /\ \E L \in {[LoggerEndSession(Watched(logger, logSeen))
                   EXCEPT !.wasOnTrack = FALSE, !.idleTimer = 0]} :
       logger' = Closure(L) /\ logSeen' = Observed(L, logSeen)
  /\ handled' = <<>>
  /\ hbSent' = {}
  /\ returned' = <<>>
  /\ evaluated' = <<>>
  /\ sent' = <<>>
  /\ UNCHANGED <<engVars, analyzer, packets, lapsSeen, now, verbosity, requested,
                 cooldowns, seen, contextUpdateCounter, broadcastAddresses,
                 explicitIP, ps5Targets, discoveredPS5, lastBroadcast>>

\* the "message" callback given to createUdpSocket; analyzer.onPacket calls the
\* lap-change callback, which runs the lap rules on a snapshot taken then
UdpMessage(msg) ==
  /\ \E telemetry \in {processPacket(msg)} :
       IF telemetry = NoFrame
         THEN /\ handled' = << [datagram |-> msg, frame |-> NoFrame, reached |-> {},
                                newRace |-> FALSE, lapChanged |-> FALSE,
                                resumed |-> FALSE,
                                flagBefore |-> analyzer.fuelUsageEnabled] >>
              /\ returned' = <<>>
              /\ evaluated' = <<>>
              /\ sent' = <<>>
              /\ UNCHANGED <<discoveredPS5, ps5Targets, lastBroadcast, anVars,
                             cooldowns, seen>>
         ELSE \E head \in {onPacketHead(analyzer, telemetry[1], now)} :
              \E snapshot \in {getSnapshot(head.A, now)} :
              \E r \in {IF head.lapChanged
                          THEN runRules(lapRules, snapshot, now, verbosity, cooldowns)
                          ELSE [cooldowns |-> cooldowns, callouts |-> <<>>]} :
              /\ telemetry[1].carOnTrack => packets < MaxPackets
              /\ analyzer' = IF telemetry[1].carOnTrack
                               THEN onPacketTail(head.A, telemetry[1], now)
                               ELSE head.A
              /\ packets' = IF telemetry[1].carOnTrack THEN packets + 1 ELSE packets
              /\ lapsSeen' = NoteLap(lapsSeen, telemetry[1], head)
              /\ \E L \in {LoggerOnPacket(Watched(logger, logSeen), telemetry[1], now)} :
                   logger' = Closure(L) /\ logSeen' = Observed(L, logSeen)
              /\ cooldowns' = r.cooldowns
              /\ returned' = r.callouts
              /\ sent' = RouteCallouts(EngState, engineer, r.callouts)
              /\ evaluated' = IF head.lapChanged
                                THEN << [set |-> "lap", snapshot |-> snapshot] >>
                                ELSE <<>>
              /\ seen' = Observe(seen, r.callouts)
              /\ handled' = << [datagram |-> msg, frame |-> telemetry,
                                reached |-> {"logger", "analyzer"}
                                   \cup (IF ShouldLock THEN {"lock"} ELSE {})
                                   \cup (IF shouldBroadcast THEN {"telemetry"} ELSE {}),
                                newRace |-> head.newRace,
                                lapChanged |-> head.lapChanged,
                                resumed |-> head.resumed,
                                flagBefore |-> analyzer.fuelUsageEnabled] >>
              /\ discoveredPS5' = IF ShouldLock THEN msg.sender ELSE discoveredPS5
              /\ ps5Targets' = IF ShouldLock THEN {msg.sender} ELSE ps5Targets
              /\ lastBroadcast' = IF shouldBroadcast THEN now ELSE lastBroadcast
  /\ hbSent' = {}
  /\ UNCHANGED <<nonUdpVars, now, broadcastAddresses, explicitIP>>

\* the 1 Hz timer emits a context update on every fifth on-track tick
ContextEveryTicks == 5

\* engineer.updateContext(snapshot) of instance i
updateContext(E, i) ==
  IF E.activeSession[i] = Null THEN <<>>
  ELSE IF E.sessions[E.activeSession[i]].gemini # "open" THEN <<>>
  ELSE << [to |-> "model", event |-> "context", session |-> E.activeSession[i],
           payload |-> << [role |-> "user", turnComplete |-> FALSE] >>] >>

\* a context update on every tick of an active session
ContextDue_EveryTick(E, i, counter) ==
  i # Null /\ E.activeSession[i] # Null

\* engineer?.hasActiveSession && contextUpdateCounter >= 5
ContextDue(E, i, counter) ==
  i # Null /\ E.activeSession[i] # Null /\ counter >= ContextEveryTicks

\* the callback of setInterval(..., 1000): snapshot to all clients, periodic
\* rules, routing of their callouts, context update
Tick ==
  /\ contextUpdateCounter < MaxTicks
  /\ \E snapshot \in {getSnapshot(analyzer, now)} :
       IF ~snapshot.carOnTrack
         THEN /\ returned' = <<>>
              /\ evaluated' = <<>>
              /\ sent' = <<>>
              /\ UNCHANGED <<cooldowns, seen, contextUpdateCounter>>
         ELSE \E r \in {runRules(periodicRules, snapshot, now, verbosity, cooldowns)} :
              LET due == ContextDue(EngState, engineer, contextUpdateCounter + 1)
              IN /\ cooldowns' = r.cooldowns
                 /\ returned' = r.callouts
                 /\ evaluated' = << [set |-> "periodic", snapshot |-> snapshot] >>
                 /\ seen' = Observe(seen, r.callouts)
                 /\ sent' = << [to |-> "clients", event |-> "telemetry:snapshot",
                                session |-> Null, payload |-> <<>>] >>
                            \o RouteCallouts(EngState, engineer, r.callouts)
                            \o (IF due THEN updateContext(EngState, engineer) ELSE <<>>)
                 /\ contextUpdateCounter' = IF due THEN 0 ELSE contextUpdateCounter + 1
  /\ handled' = <<>>
  /\ hbSent' = {}
  /\ UNCHANGED <<engVars, anVars, now, verbosity, requested, broadcastAddresses,
                 explicitIP, ps5Targets, discoveredPS5, lastBroadcast>>

\* a call of analyzer.getSnapshot(); the caller may push onto the
\* recentLapTimes it got
GetSnapshot(write) ==
  /\ \E snapshot \in {getSnapshot(analyzer, now)} :
       /\ analyzer' = IF write
                        THEN CallerWrites(analyzer, Append(snapshot.recentLapTimes, 0))
                        ELSE analyzer
       /\ sent' = << [to |-> "caller", event |-> "snapshot", session |-> Null,
                      payload |-> <<snapshot>>] >>
  /\ returned' = <<>>
  /\ evaluated' = <<>>
  /\ handled' = <<>>
  /\ hbSent' = {}
  /\ UNCHANGED <<engVars, packets, lapsSeen, logger, logSeen, now, verbosity, requested, cooldowns, seen,
                 contextUpdateCounter, broadcastAddresses, explicitIP, ps5Targets,
                 discoveredPS5, lastBroadcast>>

\* startHeartbeat's send(), run by its interval timer
HeartbeatTimer ==
  /\ hbSent' = ps5Targets
  /\ handled' = <<>>
  /\ sent' = <<>>
  /\ UNCHANGED <<nonUdpVars, anVars, now, cooldowns, seen, returned, evaluated,
                 broadcastAddresses, explicitIP, ps5Targets, discoveredPS5, lastBroadcast>>

\* module load: targets chosen, first send() of startHeartbeat done
UdpInit ==
  /\ \E interfaces \in SampleInterfaces :
        broadcastAddresses = getBroadcastAddresses(interfaces)
  /\ explicitIP \in {NoAddr, <<192, 168, 1, 42>>}
  /\ ps5Targets = IF explicitIP # NoAddr THEN {explicitIP} ELSE broadcastAddresses
  /\ discoveredPS5 = NoAddr
  /\ lastBroadcast = 0
  /\ handled = <<>>
  /\ hbSent = ps5Targets

AnInit ==
  /\ analyzer = AnalyzerInit
  /\ packets = 0
  /\ lapsSeen = <<>>
  /\ logger = Closure(LoggerInit)
  /\ logSeen \in {<<>>, Observed(LoggerInit, <<LoggerInit>>)}

NextUdp ==
  \/ \E msg \in SampleDatagrams : UdpMessage(msg)
  \/ HeartbeatTimer
  \/ \E t \in ThrottleInstants : ClockAdvance(t)

(***************************************************************************)
(* Frames fed to the analyzer in SpecAnalyzerFuel and SpecAnalyzerLaps.    *)
(***************************************************************************)
FrameLapped == [FrameBase EXCEPT !.bestLapTime = 101823, !.lastLapTime = 101823]

\* a full tank with a best lap on record and no last lap
FrameFull == [FrameLapped EXCEPT !.lastLapTime = -1]

\* a full tank; 0.01 l used; under 95% on the next lap; a lap later; the car
\* off track
FuelFrames ==
  { FrameFull,
    [FrameFull EXCEPT !.fuelLevel = 3999],
    [FrameFull EXCEPT !.fuelLevel = 3700, !.lapCount = 2],
    [FrameFull EXCEPT !.fuelLevel = 3400, !.lapCount = 3],
    FramePaused }

\* session start, and the time of the last scheduled check
FuelOffsets == {0, 30000}
FuelInstants == {StartTime + d : d \in FuelOffsets}

\* laps 1 and 2 in turn, with and without a recorded lap time
LapFrames ==
  { FrameLapped,
    [FrameLapped EXCEPT !.lapCount = 2, !.lastLapTime = 102350],
    [FrameLapped EXCEPT !.lapCount = 2, !.lastLapTime = -1],
    [FrameLapped EXCEPT !.carCode = 2],
    FramePaused }

\* within the tyre window, and past it
LapOffsets == {0, 6000}
LapInstants == {StartTime + d : d \in LapOffsets}

\* a first lap with traction control; a second lap 3 l lighter, on the
\* limiter, faster, front-left tyre 10 degrees up; a last lap time without a
\* best one
FrameOut == [FrameLapped EXCEPT !.tcsActive = TRUE]
FrameHot ==
  [FrameLapped EXCEPT !.lapCount = 2, !.lastLapTime = 102350, !.fuelLevel = 3700,
                      !.revLimiter = TRUE, !.speed = 200,
                      !.tyreTemp = [c \in Corners |-> IF c = "fl" THEN 90 ELSE 80]]
FrameNoBest ==
  [FrameBase EXCEPT !.lapCount = 2, !.lastLapTime = 102350, !.asmActive = TRUE,
                    !.speed = 150]
PauseFrames == {FrameOut, FrameHot, FrameNoBest, FrameMenu}

NextAnalyzerPause ==
  \/ \E data \in PauseFrames : UdpMessage(DatagramOf(data))
  \/ \E t \in FuelInstants : ClockAdvance(t)

\* a three-lap race: the first lap, and the second with a slower lap on
\* record and the front-left tyre at 105 degrees
FrameStint == [FrameLapped EXCEPT !.totalLaps = 3]
FrameStintHot ==
  [FrameStint EXCEPT !.lapCount = 2, !.lastLapTime = 102350,
                     !.tyreTemp = [c \in Corners |-> IF c = "fl" THEN 105 ELSE 80]]
DeliveryFrames == {FrameStint, FrameStintHot}
DeliveryPackets == 3

DeliveryFrame(data) == packets < DeliveryPackets /\ UdpMessage(DatagramOf(data))

\* one client, its voice session, the frames and the 1 Hz timer
NextDelivery ==
  \/ SocketConnect(1)
  \/ EngineerStart(1)
  \/ \E k \in 1..MaxSessions, ok \in BOOLEAN : ConnectResolve(k, ok)
  \/ \E k \in 1..MaxSessions : GeminiClose(k)
  \/ \E data \in DeliveryFrames : DeliveryFrame(data)
  \/ Tick
  \/ \E t \in FuelInstants : ClockAdvance(t)

\* a quarter tank on lap 1; 3 l less on each of the next two laps
FrameQuarter == [FrameBase EXCEPT !.fuelLevel = 1000]
LowFuelFrames ==
  { FrameQuarter,
    [FrameQuarter EXCEPT !.fuelLevel = 700, !.lapCount = 2],
    [FrameQuarter EXCEPT !.fuelLevel = 400, !.lapCount = 3] }

\* the frames, the 1 Hz timer and the clock
NextFuelCallouts ==
  \/ \E data \in LowFuelFrames : UdpMessage(DatagramOf(data))
  \/ Tick
  \/ \E t \in FuelInstants : ClockAdvance(t)

\* a full tank on lap 1; lap 2 with a lap time on record and 3 l used; off track
SnapshotFrames ==
  { FrameFull,
    [FrameLapped EXCEPT !.lapCount = 2, !.lastLapTime = 102350, !.fuelLevel = 3700],
    FramePaused }
SnapshotPackets == 3

\* session start, the last scheduled check, and a second later
SnapshotOffsets == {0, 30000, 31000}
SnapshotInstants == {StartTime + d : d \in SnapshotOffsets}

SnapshotFrame(data) == packets < SnapshotPackets /\ UdpMessage(DatagramOf(data))

\* frames, the clock, and callers of getSnapshot
NextSnapshot ==
  \/ \E data \in SnapshotFrames : SnapshotFrame(data)
  \/ \E t \in SnapshotInstants : ClockAdvance(t)
  \/ \E write \in BOOLEAN : GetSnapshot(write)

\* lap 1 with a full tank and a best lap; laps 2 and 3, 3 l lighter each; the
\* best lap back at the sentinel; another car; lap 0; lap 2 on an empty tank
NewRaceFrames ==
  { FrameLapped,
    [FrameLapped EXCEPT !.lapCount = 2, !.fuelLevel = 3700],
    [FrameLapped EXCEPT !.lapCount = 3, !.fuelLevel = 3400],
    [FrameLapped EXCEPT !.bestLapTime = -1, !.lastLapTime = -1],
    [FrameLapped EXCEPT !.carCode = 2],
    [FrameLapped EXCEPT !.lapCount = 0],
    [FrameLapped EXCEPT !.lapCount = 2, !.fuelLevel = 0] }
NewRacePackets == 4

NewRaceFrame(data) == packets < NewRacePackets /\ UdpMessage(DatagramOf(data))

NextNewRace ==
  \/ \E data \in NewRaceFrames : NewRaceFrame(data)
  \/ \E t \in FuelInstants : ClockAdvance(t)

\* a three-lap race, laps 1 to 4, the laps on record 527 ms slower, 500 ms
\* slower and 523 ms faster than the best; a ten-lap race, laps 5 and 6, the
\* lap on record 1182 ms slower and 500 ms faster; no race length and no lap
\* on record; no best lap, on laps 1 and 2
LapRuleFrames ==
  { FrameStint,
    [FrameStint EXCEPT !.lapCount = 2, !.lastLapTime = 102350],
    [FrameStint EXCEPT !.lapCount = 3, !.lastLapTime = 102323],
    [FrameStint EXCEPT !.lapCount = 4, !.lastLapTime = 101300],
    [FrameLapped EXCEPT !.totalLaps = 10, !.lapCount = 5, !.lastLapTime = 103005],
    [FrameLapped EXCEPT !.totalLaps = 10, !.lapCount = 6, !.lastLapTime = 101323],
    [FrameLapped EXCEPT !.lapCount = 2, !.lastLapTime = -1],
    FrameBase,
    [FrameBase EXCEPT !.lapCount = 2, !.lastLapTime = 102350] }
LapRulePackets == 4

LapRuleFrame(data) == packets < LapRulePackets /\ UdpMessage(DatagramOf(data))

NextLapRules ==
  \/ \E data \in LapRuleFrames : LapRuleFrame(data)
  \/ \E level \in 1..3 : SetVerbosity(level)

\* a full tank, 0.01 l used, 3 l used; session start, the first scheduled
\* check and the last
FuelCheckFrames ==
  { FrameFull,
    [FrameFull EXCEPT !.fuelLevel = 3999],
    [FrameFull EXCEPT !.fuelLevel = 3700] }
FuelCheckOffsets == {0, 5000, 30000}
FuelCheckInstants == {StartTime + d : d \in FuelCheckOffsets}
FuelCheckPackets == 7

FuelCheckFrame(data) == packets < FuelCheckPackets /\ UdpMessage(DatagramOf(data))

NextFuelChecks ==
  \/ \E data \in FuelCheckFrames : FuelCheckFrame(data)
  \/ \E t \in FuelCheckInstants : ClockAdvance(t)

\* laps 1 and 2 in turn, each starting lighter than the one before by 1, 2,
\* 3 and 4 l; and lap 1 starting at the level of a lap 2; the first lap 2 is
\* driven on the limiter at 200 km/h, and it and the lap after it carry a
\* last lap time
BurnFrames ==
  { [FrameFull EXCEPT !.lapCount = 1, !.fuelLevel = 3800],
    [FrameFull EXCEPT !.lapCount = 2, !.fuelLevel = 3700, !.lastLapTime = 102350,
                      !.revLimiter = TRUE, !.speed = 200],
    [FrameFull EXCEPT !.lapCount = 1, !.fuelLevel = 3500, !.lastLapTime = 101823],
    [FrameFull EXCEPT !.lapCount = 2, !.fuelLevel = 3200],
    [FrameFull EXCEPT !.lapCount = 1, !.fuelLevel = 2800],
    [FrameFull EXCEPT !.lapCount = 1, !.fuelLevel = 3700] }
BurnPackets == 6

BurnFrame(data) == packets < BurnPackets /\ UdpMessage(DatagramOf(data))

NextBurnRate ==
  \/ \E data \in BurnFrames : BurnFrame(data)
  \/ \E t \in FuelInstants : ClockAdvance(t)

\* on track with and without a best lap, off track; the start, and the idle
\* timeout after a frame at the start and after one at 30 s
LoggerFrames == {FrameLapped, FrameBase, FramePaused}
LoggerOffsets == {0, 30000, 60000}
LoggerInstants == {StartTime + d : d \in LoggerOffsets}
LoggerPackets == 4

LoggerFrame(data) == packets < LoggerPackets /\ UdpMessage(DatagramOf(data))

NextLogger ==
  \/ \E data \in LoggerFrames : LoggerFrame(data)
  \/ LoggerIdle
  \/ \E t \in LoggerInstants : ClockAdvance(t)

NextAnalyzerFuel ==
  \/ \E data \in FuelFrames : UdpMessage(DatagramOf(data))
  \/ \E t \in FuelInstants : ClockAdvance(t)

NextAnalyzerLaps ==
  \/ \E data \in LapFrames : UdpMessage(DatagramOf(data))
  \/ \E t \in LapInstants : ClockAdvance(t)

(***************************************************************************)
(* Voice sessions: what the claims about the orchestrator speak of.        *)
(***************************************************************************)
\* A live voice session: its model connection is open (its onAudio/onText
\* callbacks emit to its socket).
LiveSessions == {k \in DOMAIN sessions : sessions[k].gemini = "open"}

Opened(k) == sessions[k].gemini \in {"open", "closed"}

\* C1: when the startSession executions of two clients overlap (the later one
\* ran its active-session check while the earlier one was still awaiting the
\* model connection) and both model connections open, then at the step that
\* completes the second of them the orchestrator has exactly one live model
\* session, the later start owns the active session and the earlier client
\* has been sent engineer:status {connected:false}.
C1_ConcurrentStartsOneWinner ==
  [][\A b \in DOMAIN sessions : \A a \in sessions[b].overlapped :
       ( /\ sessions[a].socketId # sessions[b].socketId
         /\ "connecting" \in {sessions[a].gemini, sessions[b].gemini}
         /\ sessions'[a].gemini = "open" /\ sessions'[b].gemini = "open"
         /\ {sessions[a].socketId, sessions[b].socketId} \subseteq sockets' )
       => /\ Cardinality({k \in DOMAIN sessions' :
                            /\ sessions'[k].inst = sessions'[b].inst
                            /\ sessions'[k].gemini = "open"}) = 1
          /\ activeSession'[sessions'[b].inst] = b
          /\ sessions'[a].statusFalse]_vars

\* The sessions a step starts, and for each the session it found active.
StartedBy(old, new) == (Len(old) + 1)..Len(new)

C3_OneSessionServerWide ==
  [][/\ Cardinality(LiveSessions') <= 1
     /\ engineer' # engineer =>
          \A k \in LiveSessions : sessions'[k].gemini # "open"]_vars

\* C37: an engineer:stop from, or the disconnect of, a socket that does not
\* own an instance's active session leaves that session as it was: it stays
\* the active one, its model connection, context timer and status
\* notifications are unchanged, and the audio listeners on its owner's
\* socket stay registered.
C37_StopByNonOwnerIsNoOp ==
  [][\A s \in SocketIds :
       (EngineerStop(s) \/ SocketDisconnect(s))
         => \A i \in EngineerIds :
              LET k == activeSession[i] IN
              (k # Null /\ sessions[k].socketId # s)
                => /\ activeSession'[i] = k
                   /\ sessions'[k] = sessions[k]
                   /\ audioIn'[sessions[k].socketId] = audioIn[sessions[k].socketId]
                   /\ audioEnd'[sessions[k].socketId] = audioEnd[sessions[k].socketId]]_vars

\* the client whose session was replaced by another client's has gone, its
\* disconnect handler having run stopSession; the other client's session is
\* active and open, its owner connected with the listeners on and not told
\* of a stop
C37_Witness ==
  \E k \in DOMAIN sessions :
    /\ activeSession[sessions[k].inst] = k
    /\ sessions[k].gemini = "open"
    /\ sessions[k].socketId \in sockets
    /\ k \in audioIn[sessions[k].socketId]
    /\ ~sessions[k].statusFalse
    /\ sessions[k].replaced # Null
    /\ sessions[sessions[k].replaced].socketId # sessions[k].socketId
    /\ sessions[sessions[k].replaced].socketId \notin sockets
    /\ sessions[sessions[k].replaced].gemini = "closed"

ReturnedTypes == {returned[n].type : n \in DOMAIN returned}

\* the two verbosity checks of shouldFire, for level v
Admits(v, rule) == rule.minVerbosity <= v /\ rule.priority \in VERBOSITY_FILTER[v]

RulesOfCall(call) == IF call.set = "periodic" THEN periodicRules ELSE lapRules

\* C4: for every rule with a cooldown (fuel_low 60 s, tyre_temp_high 30 s,
\* tyre_trend 60 s), whatever evaluate, onLapComplete and setVerbosity calls
\* were made, two consecutive callouts of its type carry timestamps at least
\* cooldownMs apart; and an evaluate call that finds the trigger true at an
\* admitting verbosity leaves a callout of the type emitted within the last
\* cooldownMs (by this call when none was pending: on the first tick, and
\* again once the cooldown has expired).
C4_CooldownBetweenCallouts ==
  /\ \A ty \in CooldownTypes :
       seen[ty].prev # 0 => seen[ty].last - seen[ty].prev >= RuleOf(ty).cooldownMs
  /\ \A call \in SeqRange(evaluated) : \A rule \in SeqRange(RulesOfCall(call)) :
       (rule.cooldownMs > 0 /\ Admits(verbosity, rule) /\ RuleFires(rule.type, call.snapshot))
         => /\ seen[rule.type].last # 0
            /\ now - seen[rule.type].last < rule.cooldownMs
            /\ (rule.type \in ReturnedTypes => seen[rule.type].last = now)

\* a second callout of a type fired exactly when its cooldown expired
C4_Witness ==
  \E ty \in CooldownTypes :
     /\ ty \in ReturnedTypes
     /\ seen[ty].prev # 0
     /\ seen[ty].last = now
     /\ seen[ty].last - seen[ty].prev = RuleOf(ty).cooldownMs

\* C5: every callout returned by evaluate or onLapComplete has a priority in
\* the set admitted by the verbosity v last requested (1: critical;
\* 2: critical, normal; 3: everything) and comes from a rule whose
\* min-verbosity is at most v; the change counts from the next call on: a
\* rule without cooldown that v admits and whose trigger is true is returned.
C5_VerbosityFilter ==
  /\ \A n \in DOMAIN returned :
       /\ returned[n].priority \in VERBOSITY_FILTER[requested]
       /\ RuleOf(returned[n].type).priority = returned[n].priority
       /\ RuleOf(returned[n].type).minVerbosity <= requested
  /\ \A call \in SeqRange(evaluated) : \A rule \in SeqRange(RulesOfCall(call)) :
       (rule.cooldownMs = 0 /\ RuleFires(rule.type, call.snapshot))
         => (rule.type \in ReturnedTypes <=> Admits(requested, rule))

\* at verbosity 1 the low-fuel warning is returned, the rising-tyre one is not
C5_Witness ==
  /\ requested = 1
  /\ evaluated = << [set |-> "periodic", snapshot |-> SnapFuel] >>
  /\ RuleFires("tyre_trend", SnapFuel)
  /\ ReturnedTypes = {"fuel_low"}

(***************************************************************************)
(* Datagrams: what the claims about the decoder and discovery speak of.    *)
(***************************************************************************)
Unlocked == explicitIP = NoAddr /\ discoveredPS5 = NoAddr
GotFrame(h) == h # <<>> /\ h[1].frame # NoFrame

\* C6: for every datagram the decoder returns no frame or a frame whose magic
\* is 0x47375330; a datagram shorter than 296 bytes gives no frame; and when
\* no frame was returned nothing downstream is reached: not the logger, not
\* the analyzer, not the discovery lock (targets and discovered peer stay),
\* not the telemetry broadcast (the throttle timestamp stays).
C6_OnlyFramesGoDownstream ==
  [][\A h \in SeqRange(handled') :
       /\ h.frame = NoFrame \/ h.frame[1].magic = MAGIC_GT7
       /\ h.datagram.length < PACKET_SIZE => h.frame = NoFrame
       /\ h.frame = NoFrame =>
            /\ h.reached = {}
            /\ UNCHANGED <<analyzer, discoveredPS5, ps5Targets, lastBroadcast>>
       /\ h.frame # NoFrame => {"logger", "analyzer"} \subseteq h.reached]_vars

\* a datagram of an accepted length whose first word only decrypts to the magic
C6_Witness ==
  /\ GotFrame(handled)
  /\ handled[1].datagram.word0 # MagicWord
  /\ handled[1].frame[1].magic = MAGIC_GT7
  /\ handled[1].reached = {"logger", "analyzer", "lock", "telemetry"}
  /\ discoveredPS5 = handled[1].datagram.sender

\* C7: with no explicit peer, the targets are the computed broadcast addresses
\* and every heartbeat goes to all of them, until a datagram decodes to a
\* frame; that datagram makes the targets exactly {its sender}; from then on
\* neither the targets nor the discovered peer change, every heartbeat goes
\* to the locked peer and none to a broadcast address, and heartbeats keep
\* being sent to the locked peer.
C7_DiscoveryLocksOnce ==
  /\ [](Unlocked => /\ ps5Targets = broadcastAddresses
                    /\ hbSent \in {{}, broadcastAddresses})
  /\ [][Unlocked =>
          IF GotFrame(handled')
            THEN /\ discoveredPS5' = handled'[1].datagram.sender
                 /\ ps5Targets' = {handled'[1].datagram.sender}
            ELSE Unlocked']_vars
  /\ [][discoveredPS5 # NoAddr => UNCHANGED <<discoveredPS5, ps5Targets>>]_vars
  /\ [](discoveredPS5 # NoAddr =>
          /\ ps5Targets = {discoveredPS5}
          /\ hbSent \in {{}, {discoveredPS5}}
          /\ hbSent \cap broadcastAddresses = {})
  /\ [](discoveredPS5 # NoAddr => <>(hbSent = {discoveredPS5}))

\* locked on one sender, a valid frame of the other sender has just arrived
C7_Witness ==
  /\ discoveredPS5 # NoAddr
  /\ GotFrame(handled)
  /\ handled[1].datagram.sender # discoveredPS5
  /\ ps5Targets = {discoveredPS5}

(***************************************************************************)
(* The analyzer's fuel flag and lap times (SpecAnalyzerFuel,               *)
(* SpecAnalyzerLaps).                                                      *)
(***************************************************************************)
Determined == {"true", "false"}

\* C8 as stated: over any sequence of frames, fuelUsageEnabled changes only
\* from undetermined to on or off, and never from on or off to another value.
C8_FlagNeverGoesBack ==
  [][analyzer'.fuelUsageEnabled # analyzer.fuelUsageEnabled
       => /\ analyzer.fuelUsageEnabled = "null"
          /\ analyzer'.fuelUsageEnabled \in Determined]_vars

\* C8, amended: fuelUsageEnabled changes only from undetermined to on or off,
\* or from on or off back to undetermined on a frame that is declared a new
\* race.
C8_FlagChangesOnlyForward ==
  [][analyzer'.fuelUsageEnabled # analyzer.fuelUsageEnabled
       => \/ /\ analyzer.fuelUsageEnabled = "null"
             /\ analyzer'.fuelUsageEnabled \in Determined
          \/ /\ analyzer.fuelUsageEnabled \in Determined
             /\ analyzer'.fuelUsageEnabled = "null"
             /\ GotFrame(handled') /\ handled'[1].newRace]_vars

\* a frame declared a new race took the flag from on back to undetermined
C8_Witness ==
  /\ GotFrame(handled) /\ handled[1].newRace
  /\ handled[1].flagBefore = "true"
  /\ analyzer.fuelUsageEnabled = "null"

\* every snapshot taken: one of the present state, and the one the lap-change
\* callback took inside the handler
SnapshotsTaken ==
  {getSnapshot(analyzer, now)} \cup {call.snapshot : call \in SeqRange(evaluated)}

\* C9: in every snapshot a non-zero fuelBurnRate or a finite
\* estimatedLapsRemaining implies fuelUsageEnabled = on, and with the flag off
\* or undetermined fuelBurnRate is 0 and estimatedLapsRemaining is +infinity,
\* whatever lap-start fuel levels are recorded.
C9_FuelFiguresOnlyWhenOn ==
  \A s \in SnapshotsTaken :
    /\ (~QuotIsZero(s.fuelBurnRate) \/ IsFinite(s.estimatedLapsRemaining))
         => s.fuelUsageEnabled = "true"
    /\ s.fuelUsageEnabled # "true"
         => s.fuelBurnRate = Quot(0, 1) /\ s.estimatedLapsRemaining = PosInfinity

\* the recorded lap-start fuel levels give a burn rate and the flag is not on
C9_Witness ==
  /\ analyzer.fuelUsageEnabled # "true"
  /\ QuotGreater(calculateFuelBurnRate(analyzer), 0, 1)
  /\ getSnapshot(analyzer, now).fuelBurnRate = Quot(0, 1)

\* C10: recentLapTimes of every snapshot has at most five entries and holds,
\* oldest first, the most recent (up to five) positive lastLapTime values seen
\* on lap-count changes since the last new-race reset.
C10_RecentLapTimesFifo ==
  \A s \in SnapshotsTaken :
    /\ Len(s.recentLapTimes) <= 5
    /\ s.recentLapTimes = LastN(lapsSeen, 5)

\* more than five lap times were seen, of two values, and the oldest is gone
C10_Witness ==
  /\ Len(lapsSeen) > 5
  /\ Len(getSnapshot(analyzer, now).recentLapTimes) = 5
  /\ lapsSeen[1] # lapsSeen[2]

(***************************************************************************)
(* Snapshots, pauses and new races (SpecAnalyzerPause).                    *)
(***************************************************************************)
\* C11: in every snapshot lapDelta is non-zero only if lastLapTime > 0 and
\* bestLapTime > 0, and then it is lastLapTime - bestLapTime of the latest
\* frame.
C11_LapDeltaOnlyWithBothTimes ==
  \A s \in SnapshotsTaken :
    /\ s.lapDelta # 0 => s.lastLapTime > 0 /\ s.bestLapTime > 0
    /\ (s.lastLapTime > 0 /\ s.bestLapTime > 0)
         => /\ analyzer.latest # <<>>
            /\ s.lapDelta = analyzer.latest[1].lastLapTime - analyzer.latest[1].bestLapTime

\* the latest frame has a last lap slower than the best one
C11_Witness ==
  /\ analyzer.latest # <<>>
  /\ analyzer.latest[1].bestLapTime > 0
  /\ analyzer.latest[1].lastLapTime > analyzer.latest[1].bestLapTime
  /\ getSnapshot(analyzer, now).lapDelta > 0

\* the derived state C12 lists
DerivedState(A) ==
  [recentLapTimes |-> A.recentLapTimes, fuelAtLapStart |-> A.fuelAtLapStart,
   fuelUsageEnabled |-> A.fuelUsageEnabled, nextFuelCheckIndex |-> A.nextFuelCheckIndex,
   initialFuelLevel |-> A.initialFuelLevel, lastFuelLevel |-> A.lastFuelLevel,
   sessionStartedAt |-> A.sessionStartedAt, currentLapStartedAt |-> A.currentLapStartedAt,
   lastLapCount |-> A.lastLapCount, lapPacketCount |-> A.lapPacketCount,
   revLimiterCount |-> A.revLimiterCount, tcsCount |-> A.tcsCount,
   asmCount |-> A.asmCount, topSpeedThisLap |-> A.topSpeedThisLap,
   tempHistory |-> A.tempHistory, raceCarCode |-> A.raceCarCode,
   raceLastBestLap |-> A.raceLastBestLap, raceLastLapCount |-> A.raceLastLapCount]

IsPrefix(p, q) == Len(p) <= Len(q) /\ SubSeq(q, 1, Len(p)) = p

\* B holds what A held of a session, after one more on-track frame d at time t
\* that changed the lap count or not
CarriedOn(A, B, d, t, lapChanged) ==
  /\ B.sessionStartedAt = A.sessionStartedAt
  /\ IsPrefix(A.fuelAtLapStart, B.fuelAtLapStart)
  /\ \/ B.recentLapTimes = A.recentLapTimes
     \/ B.recentLapTimes = LastN(Append(A.recentLapTimes, d.lastLapTime), 5)
  /\ A.fuelUsageEnabled # "null" => B.fuelUsageEnabled = A.fuelUsageEnabled
  /\ B.nextFuelCheckIndex >= A.nextFuelCheckIndex
  /\ B.initialFuelLevel = A.initialFuelLevel
  /\ B.raceCarCode = A.raceCarCode
  /\ B.raceLastBestLap \in {A.raceLastBestLap, d.bestLapTime}
  /\ ~lapChanged
       => /\ B.lapPacketCount = A.lapPacketCount + 1
          /\ B.revLimiterCount >= A.revLimiterCount
          /\ B.tcsCount >= A.tcsCount
          /\ B.asmCount >= A.asmCount
          /\ B.topSpeedThisLap >= A.topSpeedThisLap
          /\ B.currentLapStartedAt = A.currentLapStartedAt
  /\ \A c \in Corners :
       \A n \in DOMAIN A.tempHistory[c] :
         A.tempHistory[c][n].timestamp >= t - TEMP_WINDOW_MS
           => A.tempHistory[c][n] \in SeqRange(B.tempHistory[c])

OfOneFrame(flag) == Quot(IF flag THEN 1 ELSE 0, 1)

\* C13: the snapshot right after a frame that was declared a new race is that
\* of a fresh session: no recent lap times, pace consistent, burn rate 0,
\* +infinity laps remaining, flag undetermined, tyre trends stable, and assist
\* fractions and top speed of that one frame.
C13_NewRaceSnapshotIsFresh ==
  (GotFrame(handled) /\ handled[1].newRace)
    => LET s == getSnapshot(analyzer, now)
           d == handled[1].frame[1]
       IN /\ s.recentLapTimes = <<>>
          /\ s.lapTimeTrend = "consistent"
          /\ s.fuelBurnRate = Quot(0, 1)
          /\ s.estimatedLapsRemaining = PosInfinity
          /\ s.fuelUsageEnabled = "null"
          /\ \A c \in Corners : s.tyreTempTrend[c] = "stable"
          /\ s.revLimiterPercent = OfOneFrame(d.revLimiter)
          /\ s.tcsPercent = OfOneFrame(d.tcsActive)
          /\ s.asmPercent = OfOneFrame(d.asmActive)
          /\ s.topSpeedThisLap = d.speed
          /\ s.sessionDurationMs = 0

\* the new race came after a session that had the flag on and counted more
\* than this frame
C13_Witness ==
  /\ GotFrame(handled) /\ handled[1].newRace
  /\ handled[1].flagBefore = "true"
  /\ packets >= 4
  /\ ~handled[1].frame[1].tcsActive

SentOf(snt, ev, k) == {n \in DOMAIN snt : snt[n].event = ev /\ snt[n].session = k}

\* the step is a model error (an engineer:error was handed to session k's
\* onError while its connection was open) or a model close of session k
ModelErrored(k) ==
  /\ sessions[k].gemini = "open"
  /\ sessions'[k].gemini = "open"
  /\ sessions'[k].errors = sessions[k].errors + 1
ModelClosed(k) == sessions[k].gemini = "open" /\ sessions'[k].gemini = "dropped"

\* C14: when the model session reports an error or closes while its voice
\* session is active, the session is torn down, the orchestrator has no active
\* session, and the owner gets engineer:error exactly once.
C14_ModelErrorEndsSession ==
  [][\A k \in DOMAIN sessions :
       (activeSession[sessions[k].inst] = k /\ (ModelErrored(k) \/ ModelClosed(k)))
         => /\ activeSession'[sessions[k].inst] = Null
            /\ sessions'[k].gemini = "closed"
            /\ sessions[k].socketId \in sockets
                 => Cardinality(SentOf(sent', "engineer:error", k)) = 1]_vars

\* C15: when opening the model session fails during engineer:start, the
\* session is not recorded as active, no engineer:status {connected:true} is
\* sent, and the starting client gets the error.
C15_FailedConnectEndsIdle ==
  [][\A k \in DOMAIN sessions :
       (sessions[k].gemini = "connecting" /\ sessions'[k].gemini = "failed")
         => /\ activeSession'[sessions[k].inst] # k
            /\ ~sessions'[k].statusTrue
            /\ sessions[k].socketId \in sockets
                 => Cardinality(SentOf(sent', "engineer:error", k)) = 1]_vars

\* C16: after the client of a session (active or still starting) has
\* disconnected, eventually that session is not the active one and its model
\* connection is not open or opening.
C16_DisconnectEndsSession ==
  \A k \in 1..MaxSessions :
    [](( k \in DOMAIN sessions /\ sessions[k].socketId \notin sockets )
         => <>( /\ k \in DOMAIN sessions
                /\ activeSession[sessions[k].inst] # k
                /\ sessions[k].gemini \notin {"connecting", "open"} ))

\* C20: model audio, model text and engineer:error of a voice session go only
\* to the socket that started it, and driver audio of a socket that does not
\* own an instance's active session does not reach that session's model
\* connection.
C20_SessionTrafficToOwnerOnly ==
  \A n \in DOMAIN sent :
    LET m == sent[n] IN
    /\ (m.event \in {"engineer:audio:out", "engineer:text", "engineer:error"}
          /\ m.session # Null)
         => m.to = sessions[m.session].socketId
    /\ m.event = "audio:in"
         => \A i \in EngineerIds :
              activeSession[i] = m.session => sessions[m.session].socketId = m.payload[1]

\* model audio went out while two sockets were connected and the other one
\* had started a session as well
C20_Witness ==
  /\ Cardinality(sockets) = 2
  /\ \E n \in DOMAIN sent :
       /\ sent[n].event = "engineer:audio:out"
       /\ sent[n].to \in sockets
       /\ \E k \in DOMAIN sessions : sessions[k].socketId # sent[n].to

\* session k has been the active session of its instance and is not any more:
\* stopSession ran for it (engineer:stop, disconnect, a new start) or a
\* resuming start took its place
Stopped(k) ==
  /\ sessions[k].gemini # "connecting"
  /\ activeSession[sessions[k].inst] # k

\* C21: once a voice session has been stopped or replaced, no step emits model
\* audio or model text of it to a client, and no step forwards a driver audio
\* chunk or an end-of-utterance signal to its model connection.
C21_StoppedSessionIsSilent ==
  [][\A n \in DOMAIN sent' :
       LET m == sent'[n] IN
       (/\ m.event \in {"engineer:audio:out", "engineer:text", "audio:in", "audio:end"}
        /\ m.session # Null)
         => ~Stopped(m.session)]_vars

(***************************************************************************)
(* Delivery of callouts (SpecDelivery).                                    *)
(***************************************************************************)
\* the step ran the rule engine from the 1 Hz timer or from a lap change
EngineRan ==
  \/ contextUpdateCounter' # contextUpdateCounter
  \/ packets' # packets /\ handled'[1].lapChanged

IsCalloutDelivery(m) == m.event \in {"callout", "engineer:text"} /\ m.payload # <<>>

\* C18: every callout the engine returns, on a tick or on a lap change, is
\* sent to the model as a callout turn or emitted to all clients as
\* engineer:text.
C18_NoCalloutDiscarded ==
  [][EngineRan
       => \A n \in DOMAIN returned' :
            \E j \in DOMAIN sent' :
              /\ IsCalloutDelivery(sent'[j])
              /\ sent'[j].payload = <<returned'[n]>>
              /\ sent'[j].event = "engineer:text" => sent'[j].to = "clients"]_vars

RuleIndex(rules, type) == CHOOSE n \in DOMAIN rules : rules[n].type = type

\* C19: the callouts of one evaluation are delivered in rule-table order, in
\* the step that generated them and stamped with its time, so before those of
\* any later tick; time never goes back.
C19_CalloutsInOrder ==
  /\ [][EngineRan
          => LET out == SelectSeq(sent', IsCalloutDelivery)
                 rules == RulesOfCall(evaluated'[1])
             IN /\ out # <<>> => [n \in DOMAIN out |-> out[n].payload[1]] = returned'
                /\ \A a, b \in DOMAIN out :
                     a < b => RuleIndex(rules, out[a].payload[1].type)
                                < RuleIndex(rules, out[b].payload[1].type)
                /\ \A n \in DOMAIN out : out[n].payload[1].timestamp = now']_vars
  /\ [][now' >= now]_vars

\* two callouts of one tick went to the open model connection
C19_Witness ==
  /\ Len(returned) >= 2
  /\ Len(SelectSeq(sent, IsCalloutDelivery)) = Len(returned)
  /\ \A n \in DOMAIN sent : IsCalloutDelivery(sent[n]) => sent[n].to = "model"
  /\ evaluated # <<>> /\ evaluated[1].set = "periodic"

(***************************************************************************)
(* Fuel callouts and the fuel flag (SpecFuelCallouts).                     *)
(***************************************************************************)
FuelCallouts == {"fuel_low", "fuel_estimate"}

\* C22: a run of the rule engine on a snapshot whose fuel flag is off or
\* undetermined (the flag the analyzer holds) returns and emits no fuel_low
\* and no fuel_estimate; and a session whose fuel level is still the initial
\* one at the last scheduled check, 30 s in, gets the flag off there.
C22_NoFuelCalloutsWhileFlagOff ==
  /\ [][(evaluated' # <<>> /\ (packets' # packets \/ evaluated'[1].set = "periodic"))
          => LET s == evaluated'[1].snapshot IN
             /\ s.fuelUsageEnabled = analyzer'.fuelUsageEnabled
             /\ s.fuelUsageEnabled # "true"
                  => /\ \A n \in DOMAIN returned' : returned'[n].type \notin FuelCallouts
                     /\ \A n \in DOMAIN sent' :
                          IsCalloutDelivery(sent'[n])
                            => sent'[n].payload[1].type \notin FuelCallouts]_vars
  /\ [][(/\ GotFrame(handled') /\ packets' # packets /\ ~handled'[1].newRace
          /\ analyzer.fuelUsageEnabled = "null"
          /\ analyzer.nextFuelCheckIndex = Len(FUEL_CHECK_TIMES_MS) - 1
          /\ now - analyzer.sessionStartedAt >= FUEL_CHECK_TIMES_MS[Len(FUEL_CHECK_TIMES_MS)]
          /\ handled'[1].frame[1].fuelLevel = analyzer.initialFuelLevel)
          => analyzer'.fuelUsageEnabled = "false"]_vars

\* the timer ran the periodic rules 30 s into a session at a quarter tank
\* whose flag went off, and no callout came of it
C22_Witness ==
  /\ evaluated # <<>> /\ evaluated[1].set = "periodic"
  /\ analyzer.fuelUsageEnabled = "false"
  /\ evaluated[1].snapshot.fuelLevel = 1000
  /\ evaluated[1].snapshot.sessionDurationMs >= 30000
  /\ returned = <<>>

(***************************************************************************)
(* The configuration (SpecConfig).                                         *)
(***************************************************************************)
\* C23: the key that came from GEMINI_API_KEY is never in config.json.
C23_EnvKeyNeverPersisted ==
  (envKey # NoKey /\ file # NoFile)
    => decryptValue(file[1].geminiApiKeyEncrypted) # envKey

\* the step is the end of a config:setApiKey whose key did not validate
Rejected ==
  /\ validating' # validating
  /\ validating' \subseteq validating
  /\ \E n \in DOMAIN sent' : sent'[n].event = "ack" /\ ~sent'[n].payload[1].valid

\* C24: a config:setApiKey whose key fails validation leaves the config in
\* memory and on disk and the orchestrator instance as they were, acks
\* {valid: false, error} and broadcasts config:state with apiKeyValid false;
\* every config:setApiKey ends with one ack and one broadcast that agree.
C24_RejectedKeyChangesNothing ==
  /\ [][Rejected
          => /\ current' = current /\ file' = file
             /\ engineer' = engineer /\ created' = created
             /\ \A n \in DOMAIN sent' : sent'[n].event = "ack" => sent'[n].payload[1].error
             /\ \E n \in DOMAIN sent' :
                  /\ sent'[n].event = "config:state" /\ sent'[n].to = "clients"
                  /\ sent'[n].payload[1].apiKeyValid = "false"
                  /\ sent'[n].payload[1].engineerEnabled = current.engineerEnabled
                  /\ sent'[n].payload[1].hasApiKey = (current.geminiApiKey # NoKey)]_vars
  /\ [][(validating' # validating /\ validating' \subseteq validating)
          => /\ Cardinality({n \in DOMAIN sent' : sent'[n].event = "ack"}) = 1
             /\ Cardinality({n \in DOMAIN sent' : sent'[n].event = "config:state"}) = 1
             /\ \A n, m \in DOMAIN sent' :
                  (sent'[n].event = "ack" /\ sent'[m].event = "config:state")
                    => sent'[m].payload[1].apiKeyValid =
                         (IF sent'[n].payload[1].valid THEN "true" ELSE "false")]_vars

\* a key was rejected while the engineer was disabled with a key on file
C24_Witness ==
  /\ \E n \in DOMAIN sent : sent[n].event = "ack" /\ ~sent[n].payload[1].valid
  /\ ~current.engineerEnabled /\ engineer = Null
  /\ current.geminiApiKey \in ConfigKeys
  /\ file = save(current)

\* C38: whatever config events were handled, in any order and with any
\* validateGeminiKey calls of config:setApiKey and config:testKey still
\* pending, an orchestrator instance exists exactly when the config in
\* memory has a non-empty API key and engineerEnabled true.
C38_EngineerIffKeyAndEnabled ==
  engineer # Null <=> (current.geminiApiKey # NoKey /\ current.engineerEnabled)

\* a second orchestrator was created and dropped again: a key is held, the
\* engineer is switched off, and a config:setApiKey and a config:testKey
\* that read the config while it was on are awaiting their validation
C38_Witness ==
  /\ created = MaxEngineers
  /\ engineer = Null
  /\ current.geminiApiKey # NoKey /\ ~current.engineerEnabled
  /\ validating # {}
  /\ \E cfg \in testing : cfg.engineerEnabled /\ cfg.geminiApiKey # NoKey

(***************************************************************************)
(* getSnapshot between frames (SpecSnapshot).                              *)
(***************************************************************************)
\* the step brought the analyzer no frame
BetweenFrames == ~GotFrame(handled')

WithoutDuration(s) == [s EXCEPT !.sessionDurationMs = 0]

\* the estimate is the time-based one: the flag is on and no per-lap burn
\* rate is known
WithoutClock(s) ==
  [s EXCEPT !.sessionDurationMs = 0,
            !.estimatedLapsRemaining =
               IF s.fuelUsageEnabled = "true" /\ QuotIsZero(s.fuelBurnRate)
                 THEN PosInfinity ELSE @]

LapEnded ==
  /\ packets' # packets
  /\ GotFrame(handled') /\ handled'[1].lapChanged /\ ~handled'[1].newRace

TypesOf(callouts) == {callouts[n].type : n \in DOMAIN callouts}

\* C26: when a lap ends in which the rev limiter was active on more than 15%
\* of the frames (TCS, ASM: more than 10%), and verbosity is 2 or more, the
\* lap change returns a rev_limiter (tcs_intervention, asm_intervention)
\* callout.
C26_AssistCalloutsForEndedLap ==
  [][(LapEnded /\ verbosity >= 2 /\ analyzer.lapPacketCount > 0)
       => /\ 100 * analyzer.revLimiterCount > 15 * analyzer.lapPacketCount
               => "rev_limiter" \in TypesOf(returned')
          /\ 100 * analyzer.tcsCount > 10 * analyzer.lapPacketCount
               => "tcs_intervention" \in TypesOf(returned')
          /\ 100 * analyzer.asmCount > 10 * analyzer.lapPacketCount
               => "asm_intervention" \in TypesOf(returned')]_vars

\* the frame that ended the lap
EndingFrame == handled'[1].frame[1]

\* C29 as stated: with verbosity 2 or more, a lap change returns a
\* race_progress callout exactly when total laps > 0 and the lap count is a
\* multiple of 5 or total laps - lap count is at most 3.
C29_RaceProgressExactlyWhen ==
  [][(LapEnded /\ verbosity >= 2)
       => ("race_progress" \in TypesOf(returned')
             <=> /\ EndingFrame.totalLaps > 0
                 /\ \/ EndingFrame.lapCount % 5 = 0
                    \/ EndingFrame.totalLaps - EndingFrame.lapCount <= 3)]_vars

\* C29 amended: exactly when total laps > 0 and the lap count is a positive
\* multiple of 5 or total laps - lap count is 1, 2 or 3.
C29_RaceProgressExactlyWhenPositive ==
  [][(LapEnded /\ verbosity >= 2)
       => ("race_progress" \in TypesOf(returned')
             <=> /\ EndingFrame.totalLaps > 0
                 /\ \/ EndingFrame.lapCount > 0 /\ EndingFrame.lapCount % 5 = 0
                    \/ EndingFrame.totalLaps - EndingFrame.lapCount \in 1..3)]_vars

\* the last lap of a three-lap race began, verbosity 2 or more, and no
\* race_progress was returned
C29_Witness ==
  /\ GotFrame(handled) /\ handled[1].lapChanged /\ ~handled[1].newRace
  /\ verbosity >= 2
  /\ handled[1].frame[1].totalLaps = 3 /\ handled[1].frame[1].lapCount = 3
  /\ "race_progress" \notin TypesOf(returned)

\* the sentence expected for the lap on record and the best lap 01:41.823
ExpectedSentence ==
  [last \in {102350, 101300, 103005} |->
     CASE last = 102350 -> "Last lap 01:42.350, +0.527s to your best."
       [] last = 101300 -> "Last lap 01:41.300, -0.523s to your best."
       [] last = 103005 -> "Last lap 01:43.005, +1.182s to your best."]

\* C30: with verbosity 2 or more, a lap change returns a lap_delta callout
\* exactly when the last and the best lap time are both > 0 and differ by
\* more than 500 ms; the callout's message is "Last lap <MM:SS.mmm>,
\* <+/-S.sss>s to your best.", for last 102350 and best 101823 "Last lap
\* 01:42.350, +0.527s to your best.".
C30_LapDeltaExactlyWhen ==
  [][(LapEnded /\ verbosity >= 2)
       => /\ "lap_delta" \in TypesOf(returned')
               <=> /\ EndingFrame.lastLapTime > 0 /\ EndingFrame.bestLapTime > 0
                   /\ \/ EndingFrame.lastLapTime - EndingFrame.bestLapTime > 500
                      \/ EndingFrame.bestLapTime - EndingFrame.lastLapTime > 500
          /\ \A n \in DOMAIN returned' :
               returned'[n].type = "lap_delta"
                 => /\ EndingFrame.bestLapTime = 101823
                    /\ EndingFrame.lastLapTime \in DOMAIN ExpectedSentence
                    /\ returned'[n].message = ExpectedSentence[EndingFrame.lastLapTime]]_vars

\* a lap change with 102350 on record returned the sentence of the example
C30_Witness ==
  /\ GotFrame(handled) /\ handled[1].lapChanged
  /\ handled[1].frame[1].lastLapTime = 102350
  /\ \E n \in DOMAIN returned :
       /\ returned[n].type = "lap_delta"
       /\ returned[n].message = "Last lap 01:42.350, +0.527s to your best."

(***************************************************************************)
(* Session boundaries (SpecNewRace).                                       *)
(***************************************************************************)
\* the step is an on-track frame
OnTrackFrame ==
  /\ packets' # packets
  /\ GotFrame(handled') /\ handled'[1].frame[1].carOnTrack

\* the conditions other than the refill, for frame d after the frames that
\* left the analyzer as A
OtherThanRefill(A, d) ==
  \/ packets = 0
  \/ d.carCode # A.raceCarCode
  \/ d.lapCount = 0 /\ A.raceLastLapCount > 0
  \/ d.lapCount < A.raceLastLapCount - 1
  \/ d.bestLapTime = -1 /\ A.raceLastBestLap > 0

\* C27 as stated: an on-track frame is declared a new race, and the session
\* starts again, exactly when it is the first on-track frame, the car code
\* changed, the lap count is 0 after a positive one, the lap count fell by
\* more than one, the best lap is -1 after having been positive, or the fuel
\* level is at least 99% of capacity after a level under 95%.
C27_NewRaceExactlyWhen ==
  [][OnTrackFrame
       => LET d == handled'[1].frame[1] IN
          /\ handled'[1].newRace
               <=> \/ OtherThanRefill(analyzer, d)
                   \/ /\ 100 * d.fuelLevel >= 99 * d.fuelCapacity
                      /\ 100 * analyzer.lastFuelLevel < 95 * d.fuelCapacity
          /\ handled'[1].newRace => analyzer'.sessionStartedAt = now]_vars

\* C27 amended: the same, with the refill counting only while the fuel flag
\* is on and the level seen before was above 0.
C27_NewRaceExactlyWhenFlagOn ==
  [][OnTrackFrame
       => LET d == handled'[1].frame[1] IN
          /\ handled'[1].newRace
               <=> \/ OtherThanRefill(analyzer, d)
                   \/ /\ analyzer.fuelUsageEnabled = "true"
                      /\ 100 * d.fuelLevel >= 99 * d.fuelCapacity
                      /\ analyzer.lastFuelLevel > 0
                      /\ 100 * analyzer.lastFuelLevel < 95 * d.fuelCapacity
          /\ handled'[1].newRace => analyzer'.sessionStartedAt = now]_vars

\* a full tank on lap 1 right after a first frame on lap 2 with 37 l, the
\* flag undetermined, was not a new race
C27_Witness ==
  /\ GotFrame(handled) /\ ~handled[1].newRace
  /\ handled[1].frame[1].fuelLevel = 4000 /\ handled[1].frame[1].lapCount = 1
  /\ handled[1].flagBefore = "null"
  /\ packets = 2
  /\ analyzer.fuelAtLapStart = <<3700, 4000>>

\* C28: an on-track frame with the best lap at -1 that repeats the frame
\* before it, which was declared a new race, is not declared a new race.
C28_BestLapResetOnce ==
  [][(/\ GotFrame(handled) /\ handled[1].newRace
      /\ OnTrackFrame
      /\ handled'[1].frame = handled[1].frame
      /\ handled'[1].frame[1].bestLapTime = -1)
       => ~handled'[1].newRace]_vars

(***************************************************************************)
(* The scheduled fuel checks (SpecFuelChecks).                             *)
(***************************************************************************)
\* the step is an on-track frame of the running session
SessionFrame == OnTrackFrame /\ ~handled'[1].newRace

\* the step ran the scheduled check number i (0 is the 5 s check)
RanCheck(i) ==
  /\ SessionFrame
  /\ analyzer.nextFuelCheckIndex = i /\ analyzer'.nextFuelCheckIndex = i + 1

Elapsed == now - analyzer.sessionStartedAt
UsedSinceStart == analyzer.initialFuelLevel - handled'[1].frame[1].fuelLevel

\* the flag leaves undetermined only at a scheduled check, 5 s or more into
\* the session; a due check runs; at a check the flag becomes on exactly
\* when more than 0.01 was used since the start; it becomes off only at the
\* last check, 30 s or more in, and without such consumption
FuelChecksAsScheduled ==
  /\ [][(analyzer.fuelUsageEnabled = "null" /\ analyzer'.fuelUsageEnabled # "null")
          => \E i \in 0..(Len(FUEL_CHECK_TIMES_MS) - 1) :
               RanCheck(i) /\ Elapsed >= FUEL_CHECK_TIMES_MS[i + 1]]_vars
  /\ [][\A i \in 0..(Len(FUEL_CHECK_TIMES_MS) - 1) :
          (/\ SessionFrame /\ analyzer.fuelUsageEnabled = "null"
           /\ analyzer.nextFuelCheckIndex = i
           /\ Elapsed >= FUEL_CHECK_TIMES_MS[i + 1])
            => /\ RanCheck(i)
               /\ analyzer'.fuelUsageEnabled = "true" <=> UsedSinceStart > 1]_vars
  /\ [][(analyzer.fuelUsageEnabled # "false" /\ analyzer'.fuelUsageEnabled = "false")
          => /\ analyzer.fuelUsageEnabled = "null"
             /\ RanCheck(Len(FUEL_CHECK_TIMES_MS) - 1)
             /\ Elapsed >= FUEL_CHECK_TIMES_MS[Len(FUEL_CHECK_TIMES_MS)]
             /\ UsedSinceStart <= 1]_vars

\* C31 as stated: after a session start the fuel flag stays undetermined
\* until a scheduled check; it becomes on at the first check at which the
\* initial fuel minus the current fuel exceeds 0.01, and off only at the 30 s
\* check with no consumption seen; and with the fuel below the initial level
\* at the 5 s check, as it is when it decreases from the start, the flag is
\* on at that check.
C31_FuelFlagSchedule ==
  /\ FuelChecksAsScheduled
  /\ [][(RanCheck(0) /\ UsedSinceStart > 0)
          => analyzer'.fuelUsageEnabled = "true"]_vars

\* C31 amended: the same, the flag being on at the 5 s check when the fuel is
\* more than 0.01 below the initial level by then.
C31_FuelFlagScheduleAboveThreshold ==
  /\ FuelChecksAsScheduled
  /\ [][(RanCheck(0) /\ UsedSinceStart > 1)
          => analyzer'.fuelUsageEnabled = "true"]_vars

\* the 5 s check ran on a frame 0.01 l below the initial level and left the
\* flag undetermined
C31_Witness ==
  /\ GotFrame(handled) /\ ~handled[1].newRace
  /\ analyzer.nextFuelCheckIndex = 1
  /\ analyzer.initialFuelLevel = 4000
  /\ handled[1].frame[1].fuelLevel = 3999
  /\ analyzer.fuelUsageEnabled = "null"

(***************************************************************************)
(* The per-lap burn rate (SpecBurnRate).                                   *)
(***************************************************************************)
\* the laps, from the second interval on, that burnt fuel: i stands for the
\* interval from lap-start level i - 1 to lap-start level i
BurningLaps(fuel) == {i \in 3..Len(fuel) : fuel[i - 1] - fuel[i] > 0}

\* the up to three latest of them
LatestBurningLaps(fuel) ==
  {i \in BurningLaps(fuel) : Cardinality({j \in BurningLaps(fuel) : j > i}) < 3}

RECURSIVE BurntOver(_, _)
BurntOver(fuel, laps) ==
  IF laps = {} THEN 0
  ELSE LET i == CHOOSE i \in laps : TRUE
       IN fuel[i - 1] - fuel[i] + BurntOver(fuel, laps \ {i})

\* C32: the per-lap burn rate is 0 with fewer than 3 lap-start fuel levels;
\* otherwise it is the average of the up to 3 most recent positive values of
\* fuel[i-1] - fuel[i], the first interval skipped, and 0 when none is
\* positive; and it is the rate the snapshot shows while the fuel flag is on.
C32_BurnRateOfLatestLaps ==
  LET fuel == analyzer.fuelAtLapStart
      rate == calculateFuelBurnRate(analyzer)
      laps == LatestBurningLaps(fuel)
  IN /\ (Len(fuel) < 3 \/ laps = {}) => rate = Quot(0, 1)
     /\ (Len(fuel) >= 3 /\ laps # {})
          => /\ rate.den > 0
             /\ rate.num * Cardinality(laps) = BurntOver(fuel, laps) * rate.den
     /\ analyzer.fuelUsageEnabled = "true"
          => getSnapshot(analyzer, now).fuelBurnRate = rate

\* six lap starts, the last five each lighter than the one before: the rate
\* is the average of the last three burns, 2, 3 and 4 l, of the four counted
C32_Witness ==
  /\ analyzer.fuelAtLapStart = <<3700, 3800, 3700, 3500, 3200, 2800>>
  /\ calculateFuelBurnRate(analyzer) = Quot(900, 3)
  /\ analyzer.fuelUsageEnabled = "true"

(***************************************************************************)
(* Context updates (SpecDelivery).                                         *)
(***************************************************************************)
\* C33: a context update goes to the model connection of the active voice
\* session, which is open, as a user-role turn with turnComplete = false,
\* while a callout carries no turnComplete; an update is sent only by a tick
\* that is at least the fifth since the counter was last 0, and it sets the
\* counter to 0; the counter grows only by one, on a 1 Hz tick.
C33_ContextEveryFiveTicks ==
  /\ [][\A n \in DOMAIN sent' : LET m == sent'[n] IN
          /\ m.event = "context"
               => /\ m.to = "model"
                  /\ engineer # Null /\ activeSession[engineer] = m.session
                  /\ m.session # Null /\ sessions[m.session].gemini = "open"
                  /\ m.payload = << [role |-> "user", turnComplete |-> FALSE] >>
                  /\ contextUpdateCounter + 1 >= 5
                  /\ contextUpdateCounter' = 0
          /\ (m.event = "callout" /\ m.to = "model")
               => "turnComplete" \notin DOMAIN m.payload[1]]_vars
  /\ [][contextUpdateCounter' # contextUpdateCounter
          => /\ \E n \in DOMAIN sent' : sent'[n].event = "telemetry:snapshot"
             /\ contextUpdateCounter' \in {0, contextUpdateCounter + 1}]_vars

\* a tick sent a context update to the open session
C33_Witness ==
  /\ \E n \in DOMAIN sent : sent[n].event = "context" /\ sent[n].session # Null
  /\ \E n \in DOMAIN sent : sent[n].event = "telemetry:snapshot"
  /\ contextUpdateCounter = 0

(***************************************************************************)
(* The lap-change observer (SpecAnalyzerLaps).                             *)
(***************************************************************************)
\* the step is a frame from the car off track
OffTrackFrame ==
  /\ packets' = packets
  /\ GotFrame(handled') /\ ~handled'[1].frame[1].carOnTrack

\* the step ran the lap-change observer, which ran the lap rules
ObserverRan == evaluated' # <<>> /\ evaluated'[1].set = "lap"

\* C35: an on-track frame runs the lap-change observer, once, exactly when it
\* is not declared a new race and its lap count differs from that of the
\* on-track frame before it; a frame off track does not run it; and a run
\* returns at most one callout of each type.
C35_ObserverOncePerLapChange ==
  /\ [][OnTrackFrame
          => /\ ObserverRan
                  <=> /\ ~handled'[1].newRace
                      /\ handled'[1].frame[1].lapCount # analyzer.raceLastLapCount
             /\ Len(evaluated') <= 1]_vars
  /\ [][OffTrackFrame => ~ObserverRan]_vars
  /\ [][ObserverRan
          => \A a, b \in DOMAIN returned' :
               returned'[a].type = returned'[b].type => a = b]_vars

\* a frame on a new lap ran the observer, which returned callouts
C35_Witness ==
  /\ GotFrame(handled) /\ handled[1].lapChanged /\ ~handled[1].newRace
  /\ evaluated # <<>> /\ evaluated[1].set = "lap"
  /\ Len(returned) >= 1

(***************************************************************************)
(* What the lap-change observer sees (SpecBurnRate).                       *)
(***************************************************************************)
\* the lap-start fuel levels once the frame's level is recorded
WithLapStartFuel(A, data) == [A EXCEPT !.fuelAtLapStart = Append(@, data.fuelLevel)]

\* C36: when the lap-change observer runs, the snapshot it takes has the
\* frame's positive last lap time as the newest of recentLapTimes (an
\* unchanged list when the frame carries no lap time), a burn rate computed
\* with the frame's fuel level as the newest lap-start level, and 0 for
\* revLimiterPercent, tcsPercent, asmPercent and topSpeedThisLap; the frame
\* is accumulated only afterwards, as the first frame of the new lap.
C36_ObserverSeesCompletedLap ==
  [][ObserverRan
       => LET s == evaluated'[1].snapshot
              d == handled'[1].frame[1]
          IN /\ d.lastLapTime > 0
                  => /\ s.recentLapTimes # <<>>
                     /\ s.recentLapTimes[Len(s.recentLapTimes)] = d.lastLapTime
             /\ d.lastLapTime <= 0 => s.recentLapTimes = analyzer.recentLapTimes
             /\ s.fuelBurnRate
                  = WhenFuelUsed(s.fuelUsageEnabled,
                                 calculateFuelBurnRate(WithLapStartFuel(analyzer, d)),
                                 Quot(0, 1))
             /\ analyzer'.fuelAtLapStart = Append(analyzer.fuelAtLapStart, d.fuelLevel)
             /\ s.revLimiterPercent = Quot(0, 1)
             /\ s.tcsPercent = Quot(0, 1)
             /\ s.asmPercent = Quot(0, 1)
             /\ s.topSpeedThisLap = 0
             /\ analyzer'.lapPacketCount = 1
             /\ analyzer'.topSpeedThisLap = d.speed]_vars

\* the observer ran on the frame that ended a lap driven on the limiter at
\* 200 km/h, with fuel in use: its snapshot has both lap times, the burn of
\* the lap just ended, and no top speed
C36_Witness ==
  /\ GotFrame(handled) /\ handled[1].lapChanged /\ ~handled[1].newRace
  /\ handled[1].frame[1].fuelLevel = 3500
  /\ evaluated # <<>> /\ evaluated[1].set = "lap"
  /\ evaluated[1].snapshot.recentLapTimes = <<102350, 101823>>
  /\ evaluated[1].snapshot.topSpeedThisLap = 0
  /\ evaluated[1].snapshot.revLimiterPercent = Quot(0, 1)
  /\ evaluated[1].snapshot.fuelBurnRate = Quot(200, 1)
  /\ analyzer.fuelAtLapStart = <<3800, 3700, 3500>>
  /\ analyzer.lapPacketCount = 1
  /\ analyzer.topSpeedThisLap = 180

(***************************************************************************)
(* The session logger (SpecLogger).                                        *)
(***************************************************************************)
\* C34: the logger has at most one open stream; an on-track frame opens one
\* exactly when the frame before it was off track or the idle timeout closed
\* the last one, and every on-track frame writes one line to the open
\* stream, the metadata's packet count being the number of lines written; a
\* stream is ended, its metadata written with that count, by a frame off
\* track after one on track and by the idle timer 30 s or more after the
\* last on-track frame, and by nothing else; with no stream open the next
\* on-track frame opens one.
C34_OneLogSessionAtATime ==
  /\ [](/\ logSeen[1].opened - logSeen[1].ended \in {0, 1}
        /\ logger.stream <=> logSeen[1].opened - logSeen[1].ended = 1
        /\ logger.stream => /\ logger.meta # <<>>
                             /\ logger.meta[1].packets = logSeen[1].linesWritten)
  /\ [][OnTrackFrame
          => /\ logger'.stream
             /\ logSeen'[1].opened = (IF logger.stream THEN logSeen[1].opened
                                                   ELSE logSeen[1].opened + 1)
             /\ logSeen'[1].ended = logSeen[1].ended
             /\ logSeen'[1].linesWritten = (IF logger.stream THEN logSeen[1].linesWritten + 1
                                                         ELSE 1)]_vars
  /\ [][~OnTrackFrame
          => /\ logSeen'[1].opened = logSeen[1].opened
             /\ logSeen'[1].linesWritten = logSeen[1].linesWritten]_vars
  /\ [][(OffTrackFrame /\ logger.stream) => logSeen'[1].ended = logSeen[1].ended + 1]_vars
  /\ [][logSeen'[1].ended # logSeen[1].ended
          => /\ logSeen'[1].ended = logSeen[1].ended + 1
             /\ ~logger'.stream
             /\ logSeen'[1].finalized = << [packets |-> logSeen[1].linesWritten,
                                        lines |-> logSeen[1].linesWritten] >>
             /\ \/ OffTrackFrame
                \/ /\ ~GotFrame(handled')
                   /\ logger.idleTimer # 0
                   /\ now >= logger.idleTimer
                   /\ now' = now]_vars

\* two streams were ended, the later one by the idle timer, after which a
\* frame opened the third
C34_Witness ==
  /\ logSeen[1].opened = 3 /\ logSeen[1].ended = 2
  /\ logger.idleTimer # 0
  /\ logSeen[1].linesWritten = 1
  /\ logSeen[1].finalized # <<>> /\ logSeen[1].finalized[1].packets = 2

Init == EngInit /\ CoInit /\ UdpInit /\ AnInit

\* Each component is checked on its own; what a component never reads is held
\* at one value.
NoEngineerConfig == file = NoFile /\ envKey = NoKey
NoLogObserver == logSeen = <<>>
DefaultNetwork == explicitIP = NoAddr /\ broadcastAddresses = {LimitedBroadcast}

InitEngineer == Init /\ NoLogObserver /\ envKey = NoKey /\ DefaultNetwork

SpecEngineer == InitEngineer /\ [][NextEngineer]_vars

SpecServer == InitEngineer /\ [][NextServer]_vars

\* every config.json and GEMINI_API_KEY set or not
InitConfig == Init /\ NoLogObserver /\ DefaultNetwork

SpecConfig == InitConfig /\ [][NextConfig]_vars

\* a pending gemini.connect() settles
SpecEngineerFair ==
  SpecEngineer /\ WF_vars(\E k \in 1..MaxSessions, ok \in BOOLEAN : ConnectResolve(k, ok))

InitCallouts == Init /\ NoLogObserver /\ NoEngineerConfig /\ DefaultNetwork

SpecCallouts == InitCallouts /\ [][NextCallouts]_vars

InitUdp == Init /\ NoLogObserver /\ NoEngineerConfig

\* the heartbeat runs on setInterval: its timer keeps firing
SpecUdp == InitUdp /\ [][NextUdp]_vars /\ WF_vars(HeartbeatTimer)

InitAnalyzer == Init /\ NoLogObserver /\ NoEngineerConfig /\ DefaultNetwork

SpecAnalyzerFuel == InitAnalyzer /\ [][NextAnalyzerFuel]_vars

SpecAnalyzerLaps == InitAnalyzer /\ [][NextAnalyzerLaps]_vars

SpecFuelCallouts == InitAnalyzer /\ [][NextFuelCallouts]_vars

SpecSnapshot == InitAnalyzer /\ [][NextSnapshot]_vars

SpecNewRace == InitAnalyzer /\ [][NextNewRace]_vars

SpecLapRules == InitAnalyzer /\ [][NextLapRules]_vars

SpecFuelChecks == InitAnalyzer /\ [][NextFuelChecks]_vars

SpecBurnRate == InitAnalyzer /\ [][NextBurnRate]_vars

InitLogger == Init /\ NoEngineerConfig /\ DefaultNetwork /\ logSeen # <<>>

SpecLogger == InitLogger /\ [][NextLogger]_vars

SpecAnalyzerPause == InitAnalyzer /\ [][NextAnalyzerPause]_vars

\* the engineer enabled with a key at startup
InitDelivery ==
  Init /\ NoLogObserver /\ envKey = NoKey /\ file = save([geminiApiKey |-> "k1", engineerEnabled |-> TRUE])
       /\ DefaultNetwork

SpecDelivery == InitDelivery /\ [][NextDelivery]_vars

SpecVerbosity == InitDelivery /\ [][NextVerbosity]_vars

=============================================================================
